---- MODULE Spec2Model ----
(***************************************************************************)
(* libosmscout TypeConfig: tag registry, tag conditions, type registry,    *)
(* classification of tag maps, the feature value buffer and the binary     *)
(* persistence of the type configuration (types.dat).                      *)
(***************************************************************************)
EXTENDS Integers, Sequences, FiniteSets, TLC

VARIABLES
  typeConfig,  \* the live TypeConfig instance
  call,        \* the last call on typeConfig, and what it returned
  buffer,      \* a FeatureValueBuffer
  copy,        \* a second FeatureValueBuffer, read from what the first wrote
  written,     \* the last FeatureValueBuffer::Write: the buffer as it was, and the file
  dataFile,    \* the content of types.dat
  load         \* the last LoadFromDataFile call: the config before, and the result

vars == <<typeConfig, call, buffer, copy, written, dataFile, load>>

-----------------------------------------------------------------------------
(* Bounds of the model *)

\* conditions added in total with TypeInfo::AddCondition
MaxConditions == 2

\* tags, priorities and types a client registers on one TypeConfig
MaxEntries == 2

\* values cut from the end of types.dat
MaxCut == 3

\* features of one type
MaxFeatures == 3

\* children of one TagBoolCondition
MaxChildren == 2

\* tags of one tag map given to AccessFeature::Parse
MaxAccessTags == 2

\* characters of a width tag value
MaxWidthLength == 4

\* digits of a maxspeed tag value
MaxSpeedDigits == 3

\* the highest priority of a name tag
MaxNamePriority == 2

-----------------------------------------------------------------------------
(* Helpers *)

Min(S) == CHOOSE x \in S : \A y \in S : x <= y

Max(a, b) == IF a >= b THEN a ELSE b

Range(s) == {s[i] : i \in 1..Len(s)}

\* The strings the model uses as tag values, in lexicographic (byte) order,
\* which is the order std::string's operator< gives.
Vocabulary == <<"", "-1", "0", "1", "10", "2", "abc", "multipolygon", "no", "route", "yes">>

Rank(s) == CHOOSE i \in 1..Len(Vocabulary) : Vocabulary[i] = s

StringLess(a, b) == Rank(a) < Rank(b)

\* StringToNumber(string, size_t&): the strings of the vocabulary that parse as
\* an unsigned number, and their value.
NumberStrings == {"0", "1", "10", "2"}

NumberValue(s) == CASE s = "0" -> 0 [] s = "1" -> 1 [] s = "2" -> 2 [] s = "10" -> 10

StringToNumber(s) == [ok |-> s \in NumberStrings,
                      value |-> IF s \in NumberStrings THEN NumberValue(s) ELSE 0]

-----------------------------------------------------------------------------
(* Tag conditions *)

RECURSIVE Evaluate(_, _)

TagNotConditionEvaluate(cond, tagMap) == ~Evaluate(cond.condition, tagMap)

\* a loop over the children that is false for an empty list
RECURSIVE BoolAndEvaluateEmptyFalse(_, _, _)
BoolAndEvaluateEmptyFalse(conditions, i, tagMap) ==
  IF Len(conditions) = 0 THEN FALSE
  ELSE IF i > Len(conditions) THEN TRUE
  ELSE IF ~Evaluate(conditions[i], tagMap) THEN FALSE
  ELSE BoolAndEvaluateEmptyFalse(conditions, i + 1, tagMap)

RECURSIVE BoolAndEvaluate(_, _, _)
BoolAndEvaluate(conditions, i, tagMap) ==
  IF i > Len(conditions) THEN TRUE
  ELSE IF ~Evaluate(conditions[i], tagMap) THEN FALSE
  ELSE BoolAndEvaluate(conditions, i + 1, tagMap)

RECURSIVE BoolOrEvaluate(_, _, _)
BoolOrEvaluate(conditions, i, tagMap) ==
  IF i > Len(conditions) THEN FALSE
  ELSE IF Evaluate(conditions[i], tagMap) THEN TRUE
  ELSE BoolOrEvaluate(conditions, i + 1, tagMap)

TagBoolConditionEvaluate(cond, tagMap) ==
  CASE cond.type = "boolAnd" -> BoolAndEvaluate(cond.conditions, 1, tagMap)
    [] cond.type = "boolOr"  -> BoolOrEvaluate(cond.conditions, 1, tagMap)
    [] OTHER -> FALSE

TagExistsConditionEvaluate(cond, tagMap) == cond.tag \in DOMAIN tagMap

\* an evaluation in which a missing tag is not equal to every literal
TagBinaryConditionEvaluateMissingNotEqual(cond, tagMap) ==
  IF cond.tag \notin DOMAIN tagMap THEN cond.binaryOperator = "operatorNotEqual"
  ELSE LET t == tagMap[cond.tag] IN
    IF cond.valueType = "string" THEN
      LET lit == cond.tagStringValue IN
      CASE cond.binaryOperator = "operatorLess"         -> StringLess(t, lit)
        [] cond.binaryOperator = "operatorLessEqual"    -> StringLess(t, lit) \/ t = lit
        [] cond.binaryOperator = "operatorEqual"        -> t = lit
        [] cond.binaryOperator = "operatorNotEqual"     -> t # lit
        [] cond.binaryOperator = "operatorGreaterEqual" -> StringLess(lit, t) \/ t = lit
        [] cond.binaryOperator = "operatorGreater"      -> StringLess(lit, t)
        [] OTHER -> FALSE
    ELSE
      LET n == StringToNumber(t)
          lit == cond.tagSizeValue IN
      IF ~n.ok THEN FALSE
      ELSE
      CASE cond.binaryOperator = "operatorLess"         -> n.value < lit
        [] cond.binaryOperator = "operatorLessEqual"    -> n.value <= lit
        [] cond.binaryOperator = "operatorEqual"        -> n.value = lit
        [] cond.binaryOperator = "operatorNotEqual"     -> n.value # lit
        [] cond.binaryOperator = "operatorGreaterEqual" -> n.value >= lit
        [] cond.binaryOperator = "operatorGreater"      -> n.value > lit
        [] OTHER -> FALSE

TagBinaryConditionEvaluate(cond, tagMap) ==
  IF cond.tag \notin DOMAIN tagMap THEN FALSE
  ELSE LET t == tagMap[cond.tag] IN
    IF cond.valueType = "string" THEN
      LET lit == cond.tagStringValue IN
      CASE cond.binaryOperator = "operatorLess"         -> StringLess(t, lit)
        [] cond.binaryOperator = "operatorLessEqual"    -> StringLess(t, lit) \/ t = lit
        [] cond.binaryOperator = "operatorEqual"        -> t = lit
        [] cond.binaryOperator = "operatorNotEqual"     -> t # lit
        [] cond.binaryOperator = "operatorGreaterEqual" -> StringLess(lit, t) \/ t = lit
        [] cond.binaryOperator = "operatorGreater"      -> StringLess(lit, t)
        [] OTHER -> FALSE
    ELSE
      LET n == StringToNumber(t)
          lit == cond.tagSizeValue IN
      IF ~n.ok THEN FALSE
      ELSE
      CASE cond.binaryOperator = "operatorLess"         -> n.value < lit
        [] cond.binaryOperator = "operatorLessEqual"    -> n.value <= lit
        [] cond.binaryOperator = "operatorEqual"        -> n.value = lit
        [] cond.binaryOperator = "operatorNotEqual"     -> n.value # lit
        [] cond.binaryOperator = "operatorGreaterEqual" -> n.value >= lit
        [] cond.binaryOperator = "operatorGreater"      -> n.value > lit
        [] OTHER -> FALSE

TagIsInConditionEvaluate(cond, tagMap) ==
  IF cond.tag \notin DOMAIN tagMap THEN FALSE
  ELSE tagMap[cond.tag] \in cond.tagValues

\* TagCondition::Evaluate, dispatched on the dynamic type of the condition
Evaluate(cond, tagMap) ==
  CASE cond.kind = "TagNotCondition"    -> TagNotConditionEvaluate(cond, tagMap)
    [] cond.kind = "TagBoolCondition"   -> TagBoolConditionEvaluate(cond, tagMap)
    [] cond.kind = "TagExistsCondition" -> TagExistsConditionEvaluate(cond, tagMap)
    [] cond.kind = "TagBinaryCondition" -> TagBinaryConditionEvaluate(cond, tagMap)
    [] cond.kind = "TagIsInCondition"   -> TagIsInConditionEvaluate(cond, tagMap)

\* constructors of conditions
TagNotCondition(c) == [kind |-> "TagNotCondition", condition |-> c]
TagBoolCondition(type, cs) == [kind |-> "TagBoolCondition", type |-> type, conditions |-> cs]
TagExistsCondition(tag) == [kind |-> "TagExistsCondition", tag |-> tag]
TagBinaryConditionString(tag, op, value) ==
  [kind |-> "TagBinaryCondition", tag |-> tag, binaryOperator |-> op,
   valueType |-> "string", tagStringValue |-> value, tagSizeValue |-> 0]
TagBinaryConditionSizeT(tag, op, value) ==
  [kind |-> "TagBinaryCondition", tag |-> tag, binaryOperator |-> op,
   valueType |-> "sizet", tagStringValue |-> "", tagSizeValue |-> value]
TagIsInCondition(tag, values) == [kind |-> "TagIsInCondition", tag |-> tag, tagValues |-> values]

-----------------------------------------------------------------------------
(* Features.  A Feature object of the library is identified by its name;     *)
(* valueSize is sizeof of its FeatureValue class (LP64, libstdc++: a vptr    *)
(* plus one or two std::string, or a vptr plus one byte), 0 for the          *)
(* flag-only features.  "Custom" is an object of a Feature class of a client *)
(* whose GetValueSize() returns 12, "Custom#2" an object of another class of *)
(* the client with the same name and no value.                               *)

FeatureNames == <<"Name", "NameAlt", "Ref", "Address", "Access", "Layer",
                  "Width", "MaxSpeed", "Grade", "Bridge", "Tunnel", "Roundabout">>

\* Feature::GetName
FeatureGetName(feature) == IF feature = "Custom#2" THEN "Custom" ELSE feature

GetValueSize(featureName) ==
  CASE featureName \in {"Name", "NameAlt", "Ref"} -> 40
    [] featureName = "Custom" -> 12
    [] featureName = "Address" -> 72
    [] featureName \in {"Access", "Layer", "Width", "MaxSpeed", "Grade"} -> 16
    [] OTHER -> 0

\* Feature::HasValue
FeatureHasValue(featureName) == GetValueSize(featureName) > 0

\* max(sizeof(size_t), sizeof(void*))
alignment == 8

-----------------------------------------------------------------------------
(* TagInfo and TypeInfo *)

tagIgnore == 0
typeIgnore == 0

typeNode == "typeNode"
typeWay == "typeWay"
typeArea == "typeArea"
typeRelation == "typeRelation"

TagInfo(name, internalOnly) == [id |-> 0, name |-> name, internalOnly |-> internalOnly]

\* TypeInfo::TypeInfo()
NewTypeInfo ==
  [id |-> 0, name |-> "",
   canBeNode |-> FALSE, canBeWay |-> FALSE, canBeArea |-> FALSE, canBeRelation |-> FALSE,
   canRouteFoot |-> FALSE, canRouteBicycle |-> FALSE, canRouteCar |-> FALSE,
   indexAsLocation |-> FALSE, indexAsRegion |-> FALSE, indexAsPOI |-> FALSE,
   optimizeLowZoom |-> FALSE, multipolygon |-> FALSE, pinWay |-> FALSE,
   ignoreSeaLand |-> FALSE, ignore |-> FALSE,
   features |-> <<>>, featureSet |-> {}, conditions |-> <<>>]

\* TypeInfo::AddCondition(types, condition); types is the set of the kind bits
AddCondition(typeInfo, types, condition) ==
  [typeInfo EXCEPT
     !.canBeNode     = IF typeNode \in types THEN TRUE ELSE @,
     !.canBeWay      = IF typeWay \in types THEN TRUE ELSE @,
     !.canBeArea     = IF typeArea \in types THEN TRUE ELSE @,
     !.canBeRelation = IF typeRelation \in types THEN TRUE ELSE @,
     !.conditions    = Append(@, [types |-> types, condition |-> condition])]

\* TypeInfo::HasConditions
HasConditions(typeInfo) == Len(typeInfo.conditions) > 0

\* AddFeature without the rounding of the offset to the alignment
AddFeatureUnaligned(typeInfo, featureName) ==
  LET n == Len(typeInfo.features)
      raw == IF n = 0 THEN 0
             ELSE typeInfo.features[n].offset + GetValueSize(typeInfo.features[n].feature)
  IN [typeInfo EXCEPT
        !.features = Append(@, [feature |-> featureName, offset |-> raw]),
        !.featureSet = @ \cup {FeatureGetName(featureName)}]

\* TypeInfo::AddFeature(feature); the caller guarantees the asserted
\* precondition that the type does not have the feature yet
AddFeature(typeInfo, featureName) ==
  LET n == Len(typeInfo.features)
      raw == IF n = 0 THEN 0
             ELSE typeInfo.features[n].offset + GetValueSize(typeInfo.features[n].feature)
      offset == IF raw % alignment # 0 THEN ((raw \div alignment) + 1) * alignment ELSE raw
  IN [typeInfo EXCEPT
        !.features = Append(@, [feature |-> featureName, offset |-> offset]),
        !.featureSet = @ \cup {FeatureGetName(featureName)}]

\* TypeInfo::HasFeature
HasFeature(typeInfo, featureName) == featureName \in typeInfo.featureSet

\* TypeInfo::GetFeatureValueBufferSize
\* a size that ends at the offset of the last feature
GetFeatureValueBufferSizeToLastOffset(typeInfo) ==
  LET n == Len(typeInfo.features) IN
  IF n = 0 THEN 0 ELSE typeInfo.features[n].offset

GetFeatureValueBufferSize(typeInfo) ==
  LET n == Len(typeInfo.features) IN
  IF n = 0 THEN 0
  ELSE typeInfo.features[n].offset + GetValueSize(typeInfo.features[n].feature)

\* TypeInfo::GetFeatureCount
GetFeatureCount(typeInfo) == Len(typeInfo.features)

-----------------------------------------------------------------------------
(* TypeConfig: the tag registry.  A TypeConfig is a record of its members;  *)
(* the maps holding TypeInfoRef hold the position of the object in types.   *)

\* a registration that does not advance nextTagId
RegisterTagForInternalUseSameId(tc, tagName) ==
  IF tagName \in DOMAIN tc.stringToTagMap
  THEN [config |-> tc, id |-> tc.stringToTagMap[tagName]]
  ELSE [config |-> [tc EXCEPT !.tags = Append(@, [id |-> tc.nextTagId, name |-> tagName,
                                                  internalOnly |-> TRUE]),
                              !.stringToTagMap = (tagName :> tc.nextTagId) @@ @],
        id |-> tc.nextTagId]

\* TypeConfig::RegisterTagForInternalUse: the new config and the returned id
RegisterTagForInternalUse(tc, tagName) ==
  IF tagName \in DOMAIN tc.stringToTagMap
  THEN [config |-> tc, id |-> tc.stringToTagMap[tagName]]
  ELSE LET tagInfo == [TagInfo(tagName, TRUE) EXCEPT !.id = tc.nextTagId] IN
       [config |-> [tc EXCEPT !.nextTagId = @ + 1,
                              !.tags = Append(@, tagInfo),
                              !.stringToTagMap = (tagName :> tagInfo.id) @@ @],
        id |-> tagInfo.id]

\* a registration for external use without SetToExternal() on a known tag
RegisterTagForExternalUseNoPromote(tc, tagName) ==
  IF tagName \in DOMAIN tc.stringToTagMap
  THEN [config |-> tc, id |-> tc.stringToTagMap[tagName]]
  ELSE [config |-> [tc EXCEPT !.nextTagId = @ + 1,
                              !.tags = Append(@, [id |-> tc.nextTagId, name |-> tagName,
                                                  internalOnly |-> FALSE]),
                              !.stringToTagMap = (tagName :> tc.nextTagId) @@ @],
        id |-> tc.nextTagId]

\* TypeConfig::RegisterTagForExternalUse
RegisterTagForExternalUse(tc, tagName) ==
  IF tagName \in DOMAIN tc.stringToTagMap
  THEN LET id == tc.stringToTagMap[tagName] IN
       [config |-> [tc EXCEPT !.tags[id + 1].internalOnly = FALSE], id |-> id]
  ELSE LET tagInfo == [TagInfo(tagName, FALSE) EXCEPT !.id = tc.nextTagId] IN
       [config |-> [tc EXCEPT !.nextTagId = @ + 1,
                              !.tags = Append(@, tagInfo),
                              !.stringToTagMap = (tagName :> tagInfo.id) @@ @],
        id |-> tagInfo.id]

\* std::unordered_map::insert: keeps the entry a key already has
MapInsert(map, key, value) == IF key \in DOMAIN map THEN map ELSE (key :> value) @@ map

\* TypeConfig::RegisterNameTag
RegisterNameTag(tc, tagName, priority) ==
  LET r == RegisterTagForExternalUse(tc, tagName) IN
  [config |-> [r.config EXCEPT !.nameTagIdToPrioMap = MapInsert(@, r.id, priority)],
   id |-> r.id]

\* TypeConfig::RegisterNameAltTag
RegisterNameAltTag(tc, tagName, priority) ==
  LET r == RegisterTagForExternalUse(tc, tagName) IN
  [config |-> [r.config EXCEPT !.nameAltTagIdToPrioMap = MapInsert(@, r.id, priority)],
   id |-> r.id]

\* TypeConfig::GetTagId
GetTagId(tc, name) ==
  IF name \in DOMAIN tc.stringToTagMap THEN tc.stringToTagMap[name] ELSE tagIgnore

\* TypeConfig::IsNameTag / IsNameAltTag
IsNameTag(tc, tag) == tag \in DOMAIN tc.nameTagIdToPrioMap
IsNameAltTag(tc, tag) == tag \in DOMAIN tc.nameAltTagIdToPrioMap

\* TypeConfig::RegisterFeature (Feature::Initialize registers the tags the
\* feature reads for internal use; the constructor has registered all of them
\* before, so it adds no tag)
RegisterFeature(tc, featureName) ==
  [tc EXCEPT !.nameToFeatureMap = (FeatureGetName(featureName) :> featureName) @@ @]

\* TypeConfig::GetFeature: the feature, or "" for an invalid reference
GetFeature(tc, name) ==
  IF name \in DOMAIN tc.nameToFeatureMap THEN tc.nameToFeatureMap[name] ELSE ""

\* TypeConfig::AddTypeInfo
AddTypeInfo(tc, typeInfo) ==
  IF typeInfo.name \in DOMAIN tc.nameToTypeMap THEN tc
  ELSE
    LET t1 == IF (typeInfo.canBeArea \/ typeInfo.canBeNode) /\ ~HasFeature(typeInfo, "Address")
              THEN AddFeature(typeInfo, GetFeature(tc, "Address"))
              ELSE typeInfo
        t2 == IF t1.id = 0 THEN [t1 EXCEPT !.id = tc.nextTypeId] ELSE t1
        next == IF t1.id = 0 THEN tc.nextTypeId + 1 ELSE Max(tc.nextTypeId, t1.id + 1)
        pos == Len(tc.types) + 1
    IN [tc EXCEPT !.nextTypeId = next,
                  !.types = Append(@, t2),
                  !.nameToTypeMap = (t2.name :> pos) @@ @,
                  !.idToTypeMap = (t2.id :> pos) @@ @]

\* TypeConfig::GetTypeId
GetTypeId(tc, name) ==
  IF name \in DOMAIN tc.nameToTypeMap THEN tc.types[tc.nameToTypeMap[name]].id ELSE typeIgnore

\* TypeConfig::GetTypeInfo: the position in types of the type returned, valid
\* being FALSE where the asserted precondition id < types.size() does not hold
GetTypeInfo(tc, id) == [valid |-> id < Len(tc.types), pos |-> id + 1]

-----------------------------------------------------------------------------
(* TypeConfig::TypeConfig() *)

EmptyTypeConfig ==
  [nextTagId |-> 0, nextTypeId |-> 0,
   tags |-> <<>>, stringToTagMap |-> <<>>,
   nameTagIdToPrioMap |-> <<>>, nameAltTagIdToPrioMap |-> <<>>,
   nameToFeatureMap |-> <<>>,
   types |-> <<>>, nameToTypeMap |-> <<>>, idToTypeMap |-> <<>>,
   surfaceToGradeMap |-> <<>>]

\* the tags the constructor registers for external use, in its order
ExternalBootstrapTags ==
  <<"name", "ref", "bridge", "tunnel", "layer", "width", "oneway",
    "addr:housenumber", "addr:street", "junction", "maxspeed", "surface",
    "tracktype", "admin_level",
    "access", "access:foward", "access:backward",
    "access:foot", "access:foot:foward", "access:foot:backward",
    "access:bicycle", "access:bicycle:foward", "access:bicycle:backward",
    "access:motor_vehicle", "access:motor_vehicle:foward", "access:motor_vehicle:backward",
    "access:motorcar", "access:motorcar:foward", "access:motorcar:backward">>

\* the tags the constructor registers for internal use after them
InternalBootstrapTags == <<"area", "natural", "type", "restriction">>

\* the internal types of the constructor: name, CanBeWay, CanBeArea
BootstrapTypes ==
  <<[name |-> "", way |-> FALSE, area |-> FALSE],
    [name |-> "_route", way |-> TRUE, area |-> FALSE],
    [name |-> "_tile_land", way |-> FALSE, area |-> TRUE],
    [name |-> "_tile_sea", way |-> FALSE, area |-> TRUE],
    [name |-> "_tile_coast", way |-> FALSE, area |-> TRUE],
    [name |-> "_tile_unknown", way |-> FALSE, area |-> TRUE],
    [name |-> "_tile_coastline", way |-> TRUE, area |-> FALSE]>>

RECURSIVE RegisterExternalTags(_, _, _)
RegisterExternalTags(tc, names, i) ==
  IF i > Len(names) THEN tc
  ELSE RegisterExternalTags(RegisterTagForExternalUse(tc, names[i]).config, names, i + 1)

RECURSIVE RegisterInternalTags(_, _, _)
RegisterInternalTags(tc, names, i) ==
  IF i > Len(names) THEN tc
  ELSE RegisterInternalTags(RegisterTagForInternalUse(tc, names[i]).config, names, i + 1)

RECURSIVE RegisterFeatures(_, _, _)
RegisterFeatures(tc, names, i) ==
  IF i > Len(names) THEN tc
  ELSE RegisterFeatures(RegisterFeature(tc, names[i]), names, i + 1)

RECURSIVE AddBootstrapTypes(_, _)
AddBootstrapTypes(tc, i) ==
  IF i > Len(BootstrapTypes) THEN tc
  ELSE AddBootstrapTypes(
         AddTypeInfo(tc, [NewTypeInfo EXCEPT !.name = BootstrapTypes[i].name,
                                             !.canBeWay = BootstrapTypes[i].way,
                                             !.canBeArea = BootstrapTypes[i].area]),
         i + 1)

TypeConfigConstructor ==
  LET c1 == RegisterTagForInternalUse(EmptyTypeConfig, "").config
      c2 == RegisterExternalTags(c1, ExternalBootstrapTags, 1)
      c3 == RegisterInternalTags(c2, InternalBootstrapTags, 1)
      c4 == RegisterFeatures(c3, FeatureNames, 1)
  IN AddBootstrapTypes(c4, 1)

\* the members the constructor caches
tagType == GetTagId(TypeConfigConstructor, "type")
tagName == GetTagId(TypeConfigConstructor, "name")
tagArea == GetTagId(TypeConfigConstructor, "area")

\* the position of typeInfoIgnore in types
typeInfoIgnore == 1

-----------------------------------------------------------------------------
(* Classification *)

\* the inner loop of GetNodeType over the conditions of one type
RECURSIVE NodeConditionMatches(_, _, _)
NodeConditionMatches(conditions, c, tagMap) ==
  IF c > Len(conditions) THEN FALSE
  ELSE IF typeNode \notin conditions[c].types
       THEN NodeConditionMatches(conditions, c + 1, tagMap)
  ELSE IF Evaluate(conditions[c].condition, tagMap) THEN TRUE
  ELSE NodeConditionMatches(conditions, c + 1, tagMap)

\* NodeTypeScan without the return at the first matching type: a later match
\* replaces an earlier one
RECURSIVE NodeTypeScanLastMatch(_, _, _)
NodeTypeScanLastMatch(tc, tagMap, i) ==
  IF i > Len(tc.types) THEN typeInfoIgnore
  ELSE LET rest == NodeTypeScanLastMatch(tc, tagMap, i + 1) IN
       IF rest # typeInfoIgnore THEN rest
       ELSE IF HasConditions(tc.types[i]) /\ tc.types[i].canBeNode
               /\ NodeConditionMatches(tc.types[i].conditions, 1, tagMap) THEN i
       ELSE typeInfoIgnore

\* the outer loop of GetNodeType over types, from position i
RECURSIVE NodeTypeScan(_, _, _)
NodeTypeScan(tc, tagMap, i) ==
  IF i > Len(tc.types) THEN typeInfoIgnore
  ELSE IF ~HasConditions(tc.types[i]) \/ ~tc.types[i].canBeNode
       THEN NodeTypeScan(tc, tagMap, i + 1)
  ELSE IF NodeConditionMatches(tc.types[i].conditions, 1, tagMap) THEN i
  ELSE NodeTypeScan(tc, tagMap, i + 1)

\* a GetNodeType that returns the first type that can be a node, whatever its
\* conditions
GetNodeTypeWithoutConditions(tc, tagMap) ==
  LET nodes == {i \in 1..Len(tc.types) : tc.types[i].canBeNode} IN
  IF DOMAIN tagMap = {} \/ nodes = {} THEN typeInfoIgnore
  ELSE CHOOSE i \in nodes : \A j \in nodes : i <= j

\* TypeConfig::GetNodeType: the position in types of the TypeInfo returned
GetNodeType(tc, tagMap) ==
  IF DOMAIN tagMap = {} THEN typeInfoIgnore
  ELSE NodeTypeScan(tc, tagMap, 1)

\* the two loops of GetWayAreaTypeId, at condition c of the type at position i
RECURSIVE WayAreaScan(_, _, _, _, _, _)
WayAreaScan(tc, tagMap, i, c, wayType, areaType) ==
  IF i > Len(tc.types)
  THEN [ret |-> FALSE, wayType |-> wayType, areaType |-> areaType]
  ELSE
    LET type == tc.types[i] IN
    IF ~((type.canBeWay \/ type.canBeArea) /\ HasConditions(type)) \/ c > Len(type.conditions)
    THEN WayAreaScan(tc, tagMap, i + 1, 1, wayType, areaType)
    ELSE
      LET cond == type.conditions[c] IN
      IF ~(typeWay \in cond.types \/ typeArea \in cond.types)
      THEN WayAreaScan(tc, tagMap, i, c + 1, wayType, areaType)
      ELSE IF Evaluate(cond.condition, tagMap)
      THEN
        LET w == IF wayType = typeIgnore /\ typeWay \in cond.types THEN type.id ELSE wayType
            a == IF areaType = typeIgnore /\ typeArea \in cond.types THEN type.id ELSE areaType
        IN IF w # typeIgnore \/ a # typeIgnore
           THEN [ret |-> TRUE, wayType |-> w, areaType |-> a]
           ELSE WayAreaScan(tc, tagMap, i, c + 1, w, a)
      ELSE WayAreaScan(tc, tagMap, i, c + 1, wayType, areaType)

\* GetWayAreaTypeId storing the loop index where the type's id belongs
GetWayAreaTypeIdIndex(tc, tagMap) ==
  IF DOMAIN tagMap = {}
  THEN [ret |-> FALSE, wayType |-> typeIgnore, areaType |-> typeIgnore]
  ELSE LET r == WayAreaScan(tc, tagMap, 1, 1, typeIgnore, typeIgnore)
           Index(id) == IF id = typeIgnore THEN id
                        ELSE CHOOSE i \in 1..Len(tc.types) : tc.types[i].id = id
       IN [ret |-> r.ret, wayType |-> Index(r.wayType), areaType |-> Index(r.areaType)]

\* TypeConfig::GetWayAreaTypeId
GetWayAreaTypeId(tc, tagMap) ==
  IF DOMAIN tagMap = {}
  THEN [ret |-> FALSE, wayType |-> typeIgnore, areaType |-> typeIgnore]
  ELSE WayAreaScan(tc, tagMap, 1, 1, typeIgnore, typeIgnore)

\* a loop of GetRelationTypeId: kind is typeArea in the multipolygon branch and
\* typeRelation in the other
RECURSIVE RelationScan(_, _, _, _, _)
RelationScan(tc, tagMap, kind, i, c) ==
  IF i > Len(tc.types) THEN [ret |-> FALSE, typeId |-> typeIgnore]
  ELSE
    LET type == tc.types[i]
        canBe == IF kind = typeArea THEN type.canBeArea ELSE type.canBeRelation
    IN
    IF ~HasConditions(type) \/ ~canBe \/ c > Len(type.conditions)
    THEN RelationScan(tc, tagMap, kind, i + 1, 1)
    ELSE IF kind \notin type.conditions[c].types
    THEN RelationScan(tc, tagMap, kind, i, c + 1)
    ELSE IF Evaluate(type.conditions[c].condition, tagMap)
    THEN [ret |-> TRUE, typeId |-> type.id]
    ELSE RelationScan(tc, tagMap, kind, i, c + 1)

\* GetRelationTypeId without the multipolygon branch
GetRelationTypeIdNoMultipolygon(tc, tagMap) ==
  IF DOMAIN tagMap = {} THEN [ret |-> FALSE, typeId |-> typeIgnore]
  ELSE RelationScan(tc, tagMap, typeRelation, 1, 1)

\* TypeConfig::GetRelationTypeId(tagMap, typeId)
GetRelationTypeId(tc, tagMap) ==
  IF DOMAIN tagMap = {} THEN [ret |-> FALSE, typeId |-> typeIgnore]
  ELSE IF tagType \in DOMAIN tagMap /\ tagMap[tagType] = "multipolygon"
  THEN RelationScan(tc, tagMap, typeArea, 1, 1)
  ELSE RelationScan(tc, tagMap, typeRelation, 1, 1)

-----------------------------------------------------------------------------
(* FileScanner and FileWriter.  A file is the sequence of the values written *)
(* to it: [n |-> number] for the integer types, [s |-> string] for strings.  *)
(* A read at the end of the data fails and sets the sticky error state of    *)
(* the scanner, and every later read fails too; a failed read leaves its     *)
(* target as it was.                                                         *)

NewScanner(data) == [data |-> data, pos |-> 1, hasError |-> FALSE]

\* FileScanner::Read(T&) and ReadNumber(T&): [ok, scanner, value]
ScannerRead(sc) ==
  IF sc.hasError \/ sc.pos > Len(sc.data)
  THEN [ok |-> FALSE, scanner |-> [sc EXCEPT !.hasError = TRUE], value |-> [n |-> 0]]
  ELSE [ok |-> TRUE, scanner |-> [sc EXCEPT !.pos = @ + 1], value |-> sc.data[sc.pos]]

\* FileWriter::Write(value) and WriteNumber(value)
WriterWrite(data, value) == Append(data, value)

-----------------------------------------------------------------------------
(* Feature values: AllocateValue, Parse, Read and Write of the features *)

tagRef == GetTagId(TypeConfigConstructor, "ref")
tagBridge == GetTagId(TypeConfigConstructor, "bridge")
tagLayer == GetTagId(TypeConfigConstructor, "layer")
tagAddrHouseNr == GetTagId(TypeConfigConstructor, "addr:housenumber")
tagAddrStreet == GetTagId(TypeConfigConstructor, "addr:street")

\* StringToNumber(string, int8_t&): the strings of the vocabulary that parse
\* as a signed number, and their value
StringToNumberInt8(s) ==
  IF s = "-1" THEN [ok |-> TRUE, value |-> -1] ELSE StringToNumber(s)

\* Feature::AllocateValue(buffer): the value placement new constructs
FeatureAllocateValue(featureName) ==
  CASE featureName = "Name" -> [name |-> ""]
    [] featureName = "NameAlt" -> [nameAlt |-> ""]
    [] featureName = "Ref" -> [ref |-> ""]
    [] featureName = "Address" -> [location |-> "", address |-> ""]
    [] featureName = "Access" -> [access |-> 0]
    [] featureName = "Layer" -> [layer |-> 0]
    [] featureName = "Width" -> [width |-> 0]
    [] featureName = "MaxSpeed" -> [maxSpeed |-> 0]
    [] featureName = "Grade" -> [grade |-> 0]

\* Feature::Read(scanner, value): [ok, scanner, value]; value is the object
\* AllocateValue has constructed, set only when all reads succeeded
FeatureRead(featureName, sc, value) ==
  LET r1 == ScannerRead(sc)
      r2 == ScannerRead(r1.scanner)
  IN CASE featureName = "Address" ->
            IF ~r1.ok THEN [ok |-> FALSE, scanner |-> r1.scanner, value |-> value]
            ELSE IF ~r2.ok THEN [ok |-> FALSE, scanner |-> r2.scanner, value |-> value]
            ELSE [ok |-> TRUE, scanner |-> r2.scanner,
                  value |-> [location |-> r1.value.s, address |-> r2.value.s]]
       [] featureName \in {"Bridge", "Tunnel", "Roundabout"} ->
            [ok |-> TRUE, scanner |-> sc, value |-> value]
       [] OTHER ->
            IF ~r1.ok THEN [ok |-> FALSE, scanner |-> r1.scanner, value |-> value]
            ELSE [ok |-> TRUE, scanner |-> r1.scanner,
                  value |-> CASE featureName = "Name" -> [name |-> r1.value.s]
                              [] featureName = "NameAlt" -> [nameAlt |-> r1.value.s]
                              [] featureName = "Ref" -> [ref |-> r1.value.s]
                              [] featureName = "Access" -> [access |-> r1.value.n]
                              [] featureName = "Layer" -> [layer |-> r1.value.n]
                              [] featureName = "Width" -> [width |-> r1.value.n]
                              [] featureName = "MaxSpeed" -> [maxSpeed |-> r1.value.n]
                              [] featureName = "Grade" -> [grade |-> r1.value.n]]

\* an AddressFeature::Write that writes the location and forgets the address
FeatureWriteLocationOnly(featureName, data, value) ==
  CASE featureName = "Name" -> WriterWrite(data, [s |-> value.name])
    [] featureName = "NameAlt" -> WriterWrite(data, [s |-> value.nameAlt])
    [] featureName = "Ref" -> WriterWrite(data, [s |-> value.ref])
    [] featureName = "Address" -> WriterWrite(data, [s |-> value.location])
    [] featureName = "Access" -> WriterWrite(data, [n |-> value.access])
    [] featureName = "Layer" -> WriterWrite(data, [n |-> value.layer])
    [] featureName = "Width" -> WriterWrite(data, [n |-> value.width])
    [] featureName = "MaxSpeed" -> WriterWrite(data, [n |-> value.maxSpeed])
    [] featureName = "Grade" -> WriterWrite(data, [n |-> value.grade])
    [] OTHER -> data

\* Feature::Write(writer, value): the data of the writer afterwards
FeatureWrite(featureName, data, value) ==
  CASE featureName = "Name" -> WriterWrite(data, [s |-> value.name])
    [] featureName = "NameAlt" -> WriterWrite(data, [s |-> value.nameAlt])
    [] featureName = "Ref" -> WriterWrite(data, [s |-> value.ref])
    [] featureName = "Address" ->
         WriterWrite(WriterWrite(data, [s |-> value.location]), [s |-> value.address])
    [] featureName = "Access" -> WriterWrite(data, [n |-> value.access])
    [] featureName = "Layer" -> WriterWrite(data, [n |-> value.layer])
    [] featureName = "Width" -> WriterWrite(data, [n |-> value.width])
    [] featureName = "MaxSpeed" -> WriterWrite(data, [n |-> value.maxSpeed])
    [] featureName = "Grade" -> WriterWrite(data, [n |-> value.grade])
    [] OTHER -> data

-----------------------------------------------------------------------------
(* FeatureValueBuffer.  featureBits is the byte array of the presence bits;  *)
(* values[idx + 1] is what the payload region of feature idx holds: a        *)
(* constructed value, or Unconstructed (raw memory, or a destroyed value).   *)
(* Two history fields record what C++ leaves undefined or loses: lost, a     *)
(* constructed value was overwritten or released without its destructor;     *)
(* undefined, a destructor or a read was applied to an unconstructed region, *)
(* after which the behaviour of the buffer is undefined and the model stops. *)
(* lastRead is what the last Read since SetType returned.                    *)

Unconstructed == [unconstructed |-> TRUE]

BitTest(byte, bit) == (byte \div (2 ^ bit)) % 2 = 1
BitSet(byte, bit) == IF BitTest(byte, bit) THEN byte ELSE byte + 2 ^ bit
BitClear(byte, bit) == IF BitTest(byte, bit) THEN byte - 2 ^ bit ELSE byte

\* TypeInfo::GetFeatureBytes
GetFeatureBytes(typeInfo) ==
  LET size == Len(typeInfo.features) IN
  IF size % 8 = 0 THEN size \div 8 ELSE size \div 8 + 1

\* FeatureValueBuffer::FeatureValueBuffer()
NewFeatureValueBuffer ==
  [bound |-> FALSE, type |-> NewTypeInfo, featureBits |-> <<>>, values |-> <<>>,
   lost |-> FALSE, undefined |-> FALSE, lastRead |-> "none"]

\* FeatureValueBuffer::HasValue(idx)
HasValue(buf, idx) == BitTest(buf.featureBits[idx \div 8 + 1], idx % 8)

\* FeatureValueBuffer::GetValue(idx)
GetValue(buf, idx) == buf.values[idx + 1]

\* the feature at index idx of the bound type
FeatureAt(buf, idx) == buf.type.features[idx + 1].feature

\* FeatureValueBuffer::AllocateValue(idx)
AllocateValue(buf, idx) ==
  LET f == FeatureAt(buf, idx) IN
  [buf EXCEPT !.featureBits[idx \div 8 + 1] = BitSet(@, idx % 8),
              !.values[idx + 1] = IF FeatureHasValue(f) THEN FeatureAllocateValue(f) ELSE @,
              !.lost = @ \/ (FeatureHasValue(f) /\ GetValue(buf, idx) # Unconstructed)]

\* FeatureValueBuffer::FreeValue(idx)
FreeValue(buf, idx) ==
  LET f == FeatureAt(buf, idx) IN
  [buf EXCEPT !.featureBits[idx \div 8 + 1] = BitClear(@, idx % 8),
              !.values[idx + 1] = IF FeatureHasValue(f) THEN Unconstructed ELSE @,
              !.undefined = @ \/ (FeatureHasValue(f) /\ GetValue(buf, idx) = Unconstructed)]

RECURSIVE FreeValues(_, _)
FreeValues(buf, idx) ==
  IF idx >= GetFeatureCount(buf.type) THEN buf
  ELSE FreeValues(IF HasValue(buf, idx) THEN FreeValue(buf, idx) ELSE buf, idx + 1)

\* FeatureValueBuffer::DeleteData: the values whose bit is set are destroyed,
\* the memory of the others is released as it is
DeleteData(buf) ==
  IF ~buf.bound THEN buf
  ELSE LET freed == FreeValues(buf, 0) IN
       [freed EXCEPT !.lost = @ \/ (\E i \in 1..Len(freed.values) : freed.values[i] # Unconstructed),
                     !.featureBits = <<>>,
                     !.values = <<>>]

\* FeatureValueBuffer::AllocateData
AllocateData(buf) ==
  [buf EXCEPT !.featureBits = [i \in 1..GetFeatureBytes(buf.type) |-> 0],
              !.values = [i \in 1..GetFeatureCount(buf.type) |-> Unconstructed]]

\* FeatureValueBuffer::SetType(type)
SetType(buf, type) ==
  AllocateData([DeleteData(buf) EXCEPT !.bound = TRUE, !.type = type, !.lastRead = "none"])

\* x is computed once and F applied to its value
Bind(x, F(_)) == CHOOSE out \in {F(v) : v \in {x}} : TRUE

\* AccessFeatureValue::Access: the bits of the access byte
footForward == 0
footBackward == 1
bicycleForward == 2
bicycleBackward == 3
carForward == 4
carBackward == 5
onewayForward == 6
onewayBackward == 7

\* the tag ids AccessFeature::Initialize caches
tagOneway == GetTagId(TypeConfigConstructor, "oneway")
tagJunction == GetTagId(TypeConfigConstructor, "junction")
tagAccess == GetTagId(TypeConfigConstructor, "access")
tagAccessForward == GetTagId(TypeConfigConstructor, "access:foward")
tagAccessBackward == GetTagId(TypeConfigConstructor, "access:backward")
tagAccessFoot == GetTagId(TypeConfigConstructor, "access:foot")
tagAccessFootForward == GetTagId(TypeConfigConstructor, "access:foot:foward")
tagAccessFootBackward == GetTagId(TypeConfigConstructor, "access:foot:backward")
tagAccessBicycle == GetTagId(TypeConfigConstructor, "access:bicycle")
tagAccessBicycleForward == GetTagId(TypeConfigConstructor, "access:bicycle:foward")
tagAccessBicycleBackward == GetTagId(TypeConfigConstructor, "access:bicycle:backward")
tagAccessMotorVehicle == GetTagId(TypeConfigConstructor, "access:motor_vehicle")
tagAccessMotorVehicleForward == GetTagId(TypeConfigConstructor, "access:motor_vehicle:foward")
tagAccessMotorVehicleBackward == GetTagId(TypeConfigConstructor, "access:motor_vehicle:backward")
tagAccessMotorcar == GetTagId(TypeConfigConstructor, "access:motorcar")
tagAccessMotorcarForward == GetTagId(TypeConfigConstructor, "access:motorcar:foward")
tagAccessMotorcarBackward == GetTagId(TypeConfigConstructor, "access:motorcar:backward")

\* the uint8_t access of AccessFeature::Parse is the set of its bits that are
\* set, and AccessByte the number the bits stand for
AccessByte(access) ==
  (IF 0 \in access THEN 1 ELSE 0) + (IF 1 \in access THEN 2 ELSE 0) +
  (IF 2 \in access THEN 4 ELSE 0) + (IF 3 \in access THEN 8 ELSE 0) +
  (IF 4 \in access THEN 16 ELSE 0) + (IF 5 \in access THEN 32 ELSE 0) +
  (IF 6 \in access THEN 64 ELSE 0) + (IF 7 \in access THEN 128 ELSE 0)

\* `!access & bit`: the logical negation of access, which is 1 for an access
\* without bits and 0 for any other, masked with the bit
NotAnd(access, bit) == bit \in (IF access = {} THEN {0} ELSE {})

\* ParseAccessFlag(value, access, bit)
ParseAccessFlag(value, access, bit) ==
  IF value = "no" THEN access \ {bit} ELSE (access \ {bit}) \cup {bit}

\* AccessFeature::Parse, the defaults from the type
AccessDefault(type) ==
  (IF type.canRouteFoot THEN {footForward, footBackward} ELSE {}) \cup
  (IF type.canRouteBicycle THEN {bicycleForward, bicycleBackward} ELSE {}) \cup
  (IF type.canRouteCar THEN {carForward, carBackward} ELSE {})

\* AccessFeature::Parse, the tag access
AccessFlag(access, tags) ==
  IF tagAccess \in DOMAIN tags
  THEN IF tags[tagAccess] # "no"
       THEN {footForward, footBackward, bicycleForward, bicycleBackward,
             carForward, carBackward}
       ELSE {}
  ELSE access

\* AccessFeature::Parse, the tags access:forward and access:backward
AccessDirection(access, tags) ==
  IF tagAccessForward \in DOMAIN tags
  THEN IF tags[tagAccessForward] # "no"
       THEN (access \ {footForward, bicycleForward, carForward})
              \cup {footForward, bicycleForward, carForward}
       ELSE access \ {footForward, bicycleForward, carForward}
  ELSE IF tagAccessBackward \in DOMAIN tags
  THEN IF tags[tagAccessBackward] # "no"
       THEN (access \ {footBackward, bicycleBackward, carBackward})
              \cup {footBackward, bicycleBackward, carBackward}
       ELSE access \ {footBackward, bicycleBackward, carBackward}
  ELSE access

\* the branch of a mode with the tests `!access & onewayBackward` and
\* `!access & onewayForward`
AccessModeGuarded(access, value, forward, backward) ==
  LET cleared == access \ {forward, backward} IN
  IF value # "no"
  THEN LET first == IF NotAnd(cleared, onewayBackward) THEN cleared \cup {forward}
                    ELSE cleared
       IN IF NotAnd(first, onewayForward) THEN first \cup {backward} ELSE first
  ELSE cleared

\* AccessFeature::Parse, the tags access:foot, access:bicycle,
\* access:motor_vehicle and access:motorcar
AccessMode(access, tags) ==
  IF tagAccessFoot \in DOMAIN tags
  THEN IF tags[tagAccessFoot] # "no"
       THEN (access \ {footForward, footBackward}) \cup {footForward, footBackward}
       ELSE access \ {footForward, footBackward}
  ELSE IF tagAccessBicycle \in DOMAIN tags
  THEN AccessModeGuarded(access, tags[tagAccessBicycle], bicycleForward, bicycleBackward)
  ELSE IF tagAccessMotorVehicle \in DOMAIN tags
  THEN AccessModeGuarded(access, tags[tagAccessMotorVehicle], carForward, carBackward)
  ELSE IF tagAccessMotorcar \in DOMAIN tags
  THEN AccessModeGuarded(access, tags[tagAccessMotorcar], carForward, carBackward)
  ELSE access

\* the tags of a mode and a direction in the order of their tests, with their bit
AccessModeDirectionTags ==
  <<[tag |-> tagAccessFootForward, bit |-> footForward],
    [tag |-> tagAccessFootBackward, bit |-> footBackward],
    [tag |-> tagAccessBicycleForward, bit |-> bicycleForward],
    [tag |-> tagAccessBicycleBackward, bit |-> bicycleBackward],
    [tag |-> tagAccessMotorVehicleForward, bit |-> carForward],
    [tag |-> tagAccessMotorVehicleBackward, bit |-> carBackward],
    [tag |-> tagAccessMotorcarForward, bit |-> carForward],
    [tag |-> tagAccessMotorcarBackward, bit |-> carBackward]>>

\* AccessFeature::Parse, the tags of a mode and a direction
RECURSIVE AccessModeDirection(_, _, _)
AccessModeDirection(access, tags, i) ==
  IF i > Len(AccessModeDirectionTags) THEN access
  ELSE Bind(IF AccessModeDirectionTags[i].tag \in DOMAIN tags
            THEN ParseAccessFlag(tags[AccessModeDirectionTags[i].tag], access,
                                 AccessModeDirectionTags[i].bit)
            ELSE access,
            LAMBDA next : AccessModeDirection(next, tags, i + 1))

\* an oneway step in which a roundabout counts also next to an oneway tag
AccessOnewayJunctionFirst(access, tags) ==
  IF tagJunction \in DOMAIN tags /\ tags[tagJunction] = "roundabout"
  THEN (access \ {bicycleBackward, carBackward, onewayBackward})
         \cup {bicycleForward, carForward, onewayForward}
  ELSE IF tagOneway \in DOMAIN tags
  THEN IF tags[tagOneway] = "-1"
       THEN (access \ {bicycleForward, carForward, onewayForward}) \cup {onewayBackward}
       ELSE IF ~(tags[tagOneway] \in {"no", "false", "0"})
       THEN (access \ {bicycleBackward, carBackward, onewayBackward}) \cup {onewayForward}
       ELSE access
  ELSE access

\* AccessFeature::Parse, the tags oneway and junction
AccessOneway(access, tags) ==
  IF tagOneway \in DOMAIN tags
  THEN IF tags[tagOneway] = "-1"
       THEN (access \ {bicycleForward, carForward, onewayForward}) \cup {onewayBackward}
       ELSE IF ~(tags[tagOneway] \in {"no", "false", "0"})
       THEN (access \ {bicycleBackward, carBackward, onewayBackward}) \cup {onewayForward}
       ELSE access
  ELSE IF tagJunction \in DOMAIN tags /\ tags[tagJunction] = "roundabout"
  THEN (access \ {bicycleBackward, carBackward, onewayBackward})
         \cup {bicycleForward, carForward, onewayForward}
  ELSE access

\* AccessFeature::Parse: the value of access after each of its parts
AccessParse(type, tags) ==
  Bind(AccessDefault(type), LAMBDA defaultAccess :
  Bind(AccessFlag(defaultAccess, tags), LAMBDA flag :
  Bind(AccessDirection(flag, tags), LAMBDA direction :
  Bind(AccessMode(direction, tags), LAMBDA mode :
  Bind(AccessModeDirection(mode, tags, 1), LAMBDA modeDirection :
    [defaultAccess |-> defaultAccess, flag |-> flag, direction |-> direction,
     mode |-> mode, modeDirection |-> modeDirection,
     access |-> AccessOneway(modeDirection, tags)])))))

\* Feature::Parse(..., idx, tags, buffer) of the features the model binds
FeatureParse(featureName, idx, tagMap, buf) ==
  CASE featureName = "Ref" ->
         IF tagRef \in DOMAIN tagMap /\ tagMap[tagRef] # ""
         THEN [AllocateValue(buf, idx) EXCEPT !.values[idx + 1] = [ref |-> tagMap[tagRef]]]
         ELSE buf
    [] featureName = "Address" ->
         IF /\ tagAddrStreet \in DOMAIN tagMap
            /\ tagMap[tagAddrStreet] # ""
            /\ tagAddrHouseNr \in DOMAIN tagMap
            /\ tagMap[tagAddrHouseNr] # ""
         THEN [AllocateValue(buf, idx) EXCEPT
                 !.values[idx + 1] = [location |-> tagMap[tagAddrStreet],
                                      address |-> tagMap[tagAddrHouseNr]]]
         ELSE buf
    [] featureName = "Layer" ->
         IF tagLayer \in DOMAIN tagMap
         THEN LET layerValue == StringToNumberInt8(tagMap[tagLayer]) IN
              IF layerValue.ok /\ layerValue.value # 0
              THEN [AllocateValue(buf, idx) EXCEPT !.values[idx + 1] = [layer |-> layerValue.value]]
              ELSE buf
         ELSE buf
    [] featureName = "Bridge" ->
         IF tagBridge \in DOMAIN tagMap /\ ~(tagMap[tagBridge] \in {"no", "false", "0"})
         THEN AllocateValue(buf, idx)
         ELSE buf
    [] featureName = "Access" ->
         LET parsed == AccessParse(buf.type, tagMap) IN
         IF parsed.access # parsed.defaultAccess
         THEN [AllocateValue(buf, idx) EXCEPT
                 !.values[idx + 1] = [access |-> AccessByte(parsed.access)]]
         ELSE buf

\* the loop of FeatureValueBuffer::Parse
RECURSIVE ParseFeatures(_, _, _)
ParseFeatures(buf, tagMap, featureIdx) ==
  IF featureIdx >= GetFeatureCount(buf.type) THEN buf
  ELSE ParseFeatures(FeatureParse(FeatureAt(buf, featureIdx), featureIdx, tagMap, buf),
                     tagMap, featureIdx + 1)

\* FeatureValueBuffer::Parse(progress, typeConfig, object, tags)
BufferParse(buf, tagMap) == ParseFeatures(buf, tagMap, 0)

\* the first loop of FeatureValueBuffer::Read: [ok, buffer, scanner]
RECURSIVE ReadFeatureBits(_, _, _)
ReadFeatureBits(buf, sc, i) ==
  IF i > GetFeatureBytes(buf.type) THEN [ok |-> TRUE, buffer |-> buf, scanner |-> sc]
  ELSE LET r == ScannerRead(sc) IN
       IF ~r.ok THEN [ok |-> FALSE, buffer |-> buf, scanner |-> r.scanner]
       ELSE ReadFeatureBits([buf EXCEPT !.featureBits[i] = r.value.n], r.scanner, i + 1)

\* the second loop of FeatureValueBuffer::Read: the value is constructed in
\* place, whatever the region holds, and then read
RECURSIVE ReadFeatureValues(_, _, _)
ReadFeatureValues(buf, sc, idx) ==
  IF idx >= GetFeatureCount(buf.type) THEN [ok |-> TRUE, buffer |-> buf, scanner |-> sc]
  ELSE LET f == FeatureAt(buf, idx) IN
       IF HasValue(buf, idx) /\ FeatureHasValue(f)
       THEN LET r == FeatureRead(f, sc, FeatureAllocateValue(f))
                b == [buf EXCEPT !.values[idx + 1] = r.value,
                                 !.lost = @ \/ GetValue(buf, idx) # Unconstructed]
            IN IF ~r.ok THEN [ok |-> FALSE, buffer |-> b, scanner |-> r.scanner]
               ELSE ReadFeatureValues(b, r.scanner, idx + 1)
       ELSE ReadFeatureValues(buf, sc, idx + 1)

\* FeatureValueBuffer::Read(scanner): [ok, buffer, scanner]
BufferRead(buf, sc) ==
  LET bits == ReadFeatureBits(buf, sc, 1)
      r == IF bits.ok THEN ReadFeatureValues(bits.buffer, bits.scanner, 0) ELSE bits
  IN [r EXCEPT !.buffer.lastRead = IF r.ok THEN "ok" ELSE "failed"]

RECURSIVE WriteFeatureBits(_, _, _)
WriteFeatureBits(buf, data, i) ==
  IF i > GetFeatureBytes(buf.type) THEN data
  ELSE WriteFeatureBits(buf, WriterWrite(data, [n |-> buf.featureBits[i]]), i + 1)

RECURSIVE WriteFeatureValues(_, _, _)
WriteFeatureValues(buf, data, idx) ==
  IF idx >= GetFeatureCount(buf.type) THEN data
  ELSE WriteFeatureValues(buf,
         IF HasValue(buf, idx) /\ FeatureHasValue(FeatureAt(buf, idx))
         THEN FeatureWrite(FeatureAt(buf, idx), data, GetValue(buf, idx))
         ELSE data,
         idx + 1)

\* a Write that emits the payloads before the bitset
BufferWritePayloadsFirst(buf) == WriteFeatureBits(buf, WriteFeatureValues(buf, <<>>, 0), 1)

\* FeatureValueBuffer::Write(writer) on a writer without error: what is written
BufferWrite(buf) == WriteFeatureValues(buf, WriteFeatureBits(buf, <<>>, 1), 0)

\* Write reads a region that holds no constructed value
WriteReadsUnconstructed(buf) ==
  \E idx \in 0..(GetFeatureCount(buf.type) - 1) :
    /\ HasValue(buf, idx)
    /\ FeatureHasValue(FeatureAt(buf, idx))
    /\ GetValue(buf, idx) = Unconstructed

-----------------------------------------------------------------------------
(* TypeConfig::StoreToDataFile and TypeConfig::LoadFromDataFile (types.dat); *)
(* a bool is the file value [b |-> flag].                                    *)

\* records of the same size written one after the other
FlattenRecords(records, size) ==
  [k \in 1..(size * Len(records)) |-> records[((k - 1) \div size) + 1][((k - 1) % size) + 1]]

\* the loop over the tags: id, name and internal-only flag of each
StoreTags(tags) ==
  FlattenRecords([i \in 1..Len(tags) |->
                    <<[n |-> tags[i].id], [s |-> tags[i].name], [b |-> tags[i].internalOnly]>>],
                 3)

\* the tags that are name tags (or name alt tags), in the order of the tags:
\* map is nameTagIdToPrioMap (or nameAltTagIdToPrioMap)
NameTags(tags, map) == SelectSeq(tags, LAMBDA tag : tag.id \in DOMAIN map)

\* the loop over them: id, name and priority of each
StoreNameTags(tags, map) ==
  LET nameTags == NameTags(tags, map) IN
  FlattenRecords([i \in 1..Len(nameTags) |->
                    <<[n |-> nameTags[i].id], [s |-> nameTags[i].name],
                      [n |-> map[nameTags[i].id]]>>],
                 3)

\* the flags of a type in the order of the file
StoredFlags(type) ==
  <<type.canBeNode, type.canBeWay, type.canBeArea, type.canBeRelation,
    type.canRouteFoot, type.canRouteBicycle, type.canRouteCar,
    type.indexAsLocation, type.indexAsRegion, type.indexAsPOI,
    type.optimizeLowZoom, type.multipolygon, type.pinWay,
    type.ignoreSeaLand, type.ignore>>

\* what the loop over the types writes for one type
StoreType(type) ==
  <<[n |-> type.id], [s |-> type.name]>>
  \o [k \in 1..Len(StoredFlags(type)) |-> [b |-> StoredFlags(type)[k]]]
  \o <<[n |-> Len(type.features)]>>
  \o [k \in 1..Len(type.features) |-> [s |-> FeatureGetName(type.features[k].feature)]]

RECURSIVE StoreTypes(_, _)
StoreTypes(types, i) ==
  IF i > Len(types) THEN <<>> ELSE StoreType(types[i]) \o StoreTypes(types, i + 1)

\* TypeConfig::StoreToDataFile on a writer without error: the file written
StoreToDataFile(tc) ==
  <<[n |-> Len(tc.tags)]>> \o StoreTags(tc.tags)
  \o <<[n |-> Len(NameTags(tc.tags, tc.nameTagIdToPrioMap))]>>
  \o StoreNameTags(tc.tags, tc.nameTagIdToPrioMap)
  \o <<[n |-> Len(NameTags(tc.tags, tc.nameAltTagIdToPrioMap))]>>
  \o StoreNameTags(tc.tags, tc.nameAltTagIdToPrioMap)
  \o <<[n |-> Len(tc.types)]>> \o StoreTypes(tc.types, 1)

\* one pass of the tag loop of LoadFromDataFile: [ok, config, scanner], ok
\* being FALSE where the pass returns false.  The three reads are
\* `ReadNumber(requestedId) && Read(name), Read(internalOnly)`: the name is
\* read if the id was, the flag is read always and decides alone.
LoadTag(tc, sc, uninitialized) ==
  Bind(ScannerRead(sc), LAMBDA r1 :
  Bind(IF r1.ok THEN ScannerRead(r1.scanner)
       ELSE [ok |-> FALSE, scanner |-> r1.scanner, value |-> [s |-> ""]], LAMBDA r2 :
  Bind(ScannerRead(r2.scanner), LAMBDA r3 :
    LET requestedId == IF r1.ok THEN r1.value.n ELSE uninitialized
        name == IF r2.ok THEN r2.value.s ELSE ""
    IN IF ~r3.ok THEN [ok |-> FALSE, config |-> tc, scanner |-> r3.scanner]
       ELSE Bind(IF r3.value.b THEN RegisterTagForInternalUse(tc, name)
                 ELSE RegisterTagForExternalUse(tc, name), LAMBDA reg :
              [ok |-> reg.id = requestedId, config |-> reg.config,
               scanner |-> r3.scanner]))))

\* the tag loop of LoadFromDataFile: [ok, config, scanner]
RECURSIVE LoadTags(_, _, _, _, _)
LoadTags(tc, sc, i, tagCount, uninitialized) ==
  IF i > tagCount THEN [ok |-> TRUE, config |-> tc, scanner |-> sc]
  ELSE Bind(LoadTag(tc, sc, uninitialized), LAMBDA pass :
         IF ~pass.ok THEN pass
         ELSE LoadTags(pass.config, pass.scanner, i + 1, tagCount, uninitialized))

\* one pass of the name tag loop (alt = FALSE) or of the name alt tag loop
\* (alt = TRUE) of LoadFromDataFile: a failed read is reported and the pass
\* goes on with what the variables hold, requestedId being uninitialized if
\* its read failed
LoadNameTag(tc, sc, alt, uninitialized) ==
  Bind(ScannerRead(sc), LAMBDA r1 :
  Bind(IF r1.ok THEN ScannerRead(r1.scanner)
       ELSE [ok |-> FALSE, scanner |-> r1.scanner, value |-> [s |-> ""]], LAMBDA r2 :
  Bind(IF r2.ok THEN ScannerRead(r2.scanner)
       ELSE [ok |-> FALSE, scanner |-> r2.scanner, value |-> [n |-> 0]], LAMBDA r3 :
    LET requestedId == IF r1.ok THEN r1.value.n ELSE uninitialized
        name == IF r2.ok THEN r2.value.s ELSE ""
        priority == IF r3.ok THEN r3.value.n ELSE 0
    IN Bind(IF alt THEN RegisterNameAltTag(tc, name, priority)
            ELSE RegisterNameTag(tc, name, priority), LAMBDA reg :
         [ok |-> reg.id = requestedId, config |-> reg.config, scanner |-> r3.scanner]))))

\* the name tag loop and the name alt tag loop: [ok, config, scanner]
RECURSIVE LoadNameTags(_, _, _, _, _, _)
LoadNameTags(tc, sc, i, nameTagCount, alt, uninitialized) ==
  IF i > nameTagCount THEN [ok |-> TRUE, config |-> tc, scanner |-> sc]
  ELSE Bind(LoadNameTag(tc, sc, alt, uninitialized), LAMBDA pass :
         IF ~pass.ok THEN pass
         ELSE LoadNameTags(pass.config, pass.scanner, i + 1, nameTagCount, alt,
                           uninitialized))

\* k reads chained with &&: [ok, scanner, values]
RECURSIVE ReadFields(_, _, _)
ReadFields(sc, k, values) ==
  IF k = 0 THEN [ok |-> TRUE, scanner |-> sc, values |-> values]
  ELSE Bind(ScannerRead(sc), LAMBDA r :
         IF ~r.ok THEN [ok |-> FALSE, scanner |-> r.scanner, values |-> values]
         ELSE Bind(Append(values, r.value), LAMBDA read :
                ReadFields(r.scanner, k - 1, read)))

\* a type loop that builds the TypeInfo without SetId(id)
LoadedTypeInfoWithoutId(v) ==
  [NewTypeInfo EXCEPT !.name = v[2].s,
                      !.canBeNode = v[3].b, !.canBeWay = v[4].b,
                      !.canBeArea = v[5].b, !.canBeRelation = v[6].b,
                      !.canRouteFoot = v[7].b, !.canRouteBicycle = v[8].b,
                      !.canRouteCar = v[9].b,
                      !.indexAsLocation = v[10].b, !.indexAsRegion = v[11].b,
                      !.indexAsPOI = v[12].b,
                      !.ignore = v[17].b]

\* the TypeInfo the type loop builds from the 17 fields read: the last five
\* flags all go to SetIgnore
LoadedTypeInfo(v) ==
  [NewTypeInfo EXCEPT !.id = v[1].n, !.name = v[2].s,
                      !.canBeNode = v[3].b, !.canBeWay = v[4].b,
                      !.canBeArea = v[5].b, !.canBeRelation = v[6].b,
                      !.canRouteFoot = v[7].b, !.canRouteBicycle = v[8].b,
                      !.canRouteCar = v[9].b,
                      !.indexAsLocation = v[10].b, !.indexAsRegion = v[11].b,
                      !.indexAsPOI = v[12].b,
                      !.ignore = v[17].b]


\* the feature loop of the type loop: [ok, typeInfo, scanner]
RECURSIVE LoadFeatures(_, _, _, _, _)
LoadFeatures(tc, typeInfo, sc, i, featureCount) ==
  IF i >= featureCount THEN [ok |-> TRUE, typeInfo |-> typeInfo, scanner |-> sc]
  ELSE Bind(ScannerRead(sc), LAMBDA r :
         IF ~r.ok THEN [ok |-> FALSE, typeInfo |-> typeInfo, scanner |-> r.scanner]
         ELSE IF GetFeature(tc, r.value.s) = ""
         THEN [ok |-> FALSE, typeInfo |-> typeInfo, scanner |-> r.scanner]
         ELSE Bind(AddFeature(typeInfo, GetFeature(tc, r.value.s)), LAMBDA added :
                LoadFeatures(tc, added, r.scanner, i + 1, featureCount)))

\* one pass of the type loop of LoadFromDataFile: [ok, config, scanner]
LoadType(tc, sc) ==
  Bind(ReadFields(sc, 17, <<>>), LAMBDA fields :
    IF ~fields.ok THEN [ok |-> FALSE, config |-> tc, scanner |-> fields.scanner]
    ELSE
    Bind(ScannerRead(fields.scanner), LAMBDA count :
      IF ~count.ok THEN [ok |-> FALSE, config |-> tc, scanner |-> count.scanner]
      ELSE
      Bind(LoadedTypeInfo(fields.values), LAMBDA typeInfo :
      Bind(LoadFeatures(tc, typeInfo, count.scanner, 0, count.value.n), LAMBDA f :
        IF ~f.ok THEN [ok |-> FALSE, config |-> tc, scanner |-> f.scanner]
        ELSE [ok |-> TRUE, config |-> AddTypeInfo(tc, f.typeInfo),
              scanner |-> f.scanner]))))

\* the type loop of LoadFromDataFile: [ok, config, scanner]
RECURSIVE LoadTypes(_, _, _, _)
LoadTypes(tc, sc, i, typeCount) ==
  IF i > typeCount THEN [ok |-> TRUE, config |-> tc, scanner |-> sc]
  ELSE Bind(LoadType(tc, sc), LAMBDA pass :
         IF ~pass.ok THEN pass
         ELSE LoadTypes(pass.config, pass.scanner, i + 1, typeCount))

\* TypeConfig::LoadFromDataFile on the file data: [ok, config], config being
\* the TypeConfig afterwards; uninitialized is the value an uninitialized
\* TagId holds
LoadFromDataFile(tc, data, uninitialized) ==
  Bind(ScannerRead(NewScanner(data)), LAMBDA tagCount :
  IF ~tagCount.ok THEN [ok |-> FALSE, config |-> tc]
  ELSE
  Bind(LoadTags(tc, tagCount.scanner, 1, tagCount.value.n, uninitialized), LAMBDA tags :
  IF ~tags.ok THEN [ok |-> FALSE, config |-> tags.config]
  ELSE
  Bind(ScannerRead(tags.scanner), LAMBDA nameTagCount :
  IF ~nameTagCount.ok THEN [ok |-> FALSE, config |-> tags.config]
  ELSE
  Bind(LoadNameTags(tags.config, nameTagCount.scanner, 1, nameTagCount.value.n,
                    FALSE, uninitialized), LAMBDA nameTags :
  IF ~nameTags.ok THEN [ok |-> FALSE, config |-> nameTags.config]
  ELSE
  Bind(ScannerRead(nameTags.scanner), LAMBDA nameAltTagCount :
  IF ~nameAltTagCount.ok THEN [ok |-> FALSE, config |-> nameTags.config]
  ELSE
  Bind(LoadNameTags(nameTags.config, nameAltTagCount.scanner, 1,
                    nameAltTagCount.value.n, TRUE, uninitialized), LAMBDA nameAltTags :
  IF ~nameAltTags.ok THEN [ok |-> FALSE, config |-> nameAltTags.config]
  ELSE
  Bind(ScannerRead(nameAltTags.scanner), LAMBDA typeCount :
  IF ~typeCount.ok THEN [ok |-> FALSE, config |-> nameAltTags.config]
  ELSE
  Bind(LoadTypes(nameAltTags.config, typeCount.scanner, 1, typeCount.value.n),
       LAMBDA types :
  [ok |-> types.ok /\ ~types.scanner.hasError, config |-> types.config]))))))))

-----------------------------------------------------------------------------
(* The classification model: types and conditions are registered on a fresh *)
(* TypeConfig, and tag maps are classified.                                 *)

\* names of the types a client registers, in the order of their first registration
UserTypeNames == <<"highway", "building">>

\* the kinds a condition is added for
ConditionKinds == {{typeNode}, {typeWay}, {typeArea}, {typeRelation}, {typeWay, typeArea}}

\* the conditions a client adds
ConditionPool ==
  {TagExistsCondition(tagName),
   TagNotCondition(TagBinaryConditionString(tagType, "operatorEqual", "multipolygon"))}

\* the tag maps classified: name absent or "yes", type absent or "multipolygon"
ClassifyTagMaps ==
  {<<>>, (tagName :> "yes"), (tagType :> "multipolygon"),
   (tagName :> "yes") @@ (tagType :> "multipolygon")}

NoCall == [op |-> "none", tagMap |-> <<>>, ret |-> FALSE, node |-> typeInfoIgnore,
           wayType |-> typeIgnore, areaType |-> typeIgnore, typeId |-> typeIgnore]

\* positions of the types registered by the client
UserTypePositions(tc) == {i \in 1..Len(tc.types) : tc.types[i].name \in Range(UserTypeNames)}

RECURSIVE SumConditions(_, _)
SumConditions(types, i) ==
  IF i > Len(types) THEN 0 ELSE Len(types[i].conditions) + SumConditions(types, i + 1)

NoCopy == [called |-> FALSE, ok |-> FALSE, buffer |-> NewFeatureValueBuffer]
\* what a buffer holds: its type, its bits and values, and whether it was read
Content(buf) == [type |-> buf.type, featureBits |-> buf.featureBits, values |-> buf.values,
                 lastRead |-> buf.lastRead]
NothingWritten == [called |-> FALSE, source |-> Content(NewFeatureValueBuffer), data |-> <<>>]
\* no types.dat yet
NoFile == [stored |-> FALSE, source |-> TypeConfigConstructor, data |-> <<>>]
NoLoad == [called |-> FALSE, ok |-> FALSE, before |-> TypeConfigConstructor, complete |-> FALSE]

ClassifyInit ==
  /\ typeConfig = TypeConfigConstructor
  /\ call = NoCall
  /\ buffer = NewFeatureValueBuffer
  /\ copy = NoCopy
  /\ written = NothingWritten
  /\ dataFile = NoFile
  /\ load = NoLoad

\* typeConfig.AddTypeInfo(new TypeInfo named name), for a name registered
\* before or the next new name
DoAddTypeInfo ==
  /\ \E k \in 1..Len(UserTypeNames) :
       /\ k <= Cardinality(UserTypePositions(typeConfig)) + 1
       /\ typeConfig' = AddTypeInfo(typeConfig, [NewTypeInfo EXCEPT !.name = UserTypeNames[k]])
  /\ call' = NoCall
  /\ UNCHANGED <<buffer, copy, written, dataFile, load>>

\* typeInfo->AddCondition(types, condition) on a type the client registered
DoAddCondition ==
  /\ SumConditions(typeConfig.types, 1) < MaxConditions
  /\ \E pos \in UserTypePositions(typeConfig), types \in ConditionKinds, cond \in ConditionPool :
       typeConfig' = [typeConfig EXCEPT !.types[pos] = AddCondition(@, types, cond)]
  /\ call' = NoCall
  /\ UNCHANGED <<buffer, copy, written, dataFile, load>>

DoGetNodeType ==
  /\ \E tagMap \in ClassifyTagMaps :
       call' = [NoCall EXCEPT !.op = "GetNodeType", !.tagMap = tagMap,
                              !.node = GetNodeType(typeConfig, tagMap)]
  /\ UNCHANGED <<typeConfig, buffer, copy, written, dataFile, load>>

DoGetWayAreaTypeId ==
  /\ \E tagMap \in ClassifyTagMaps :
       LET r == GetWayAreaTypeId(typeConfig, tagMap) IN
       call' = [NoCall EXCEPT !.op = "GetWayAreaTypeId", !.tagMap = tagMap, !.ret = r.ret,
                              !.wayType = r.wayType, !.areaType = r.areaType]
  /\ UNCHANGED <<typeConfig, buffer, copy, written, dataFile, load>>

DoGetRelationTypeId ==
  /\ \E tagMap \in ClassifyTagMaps :
       LET r == GetRelationTypeId(typeConfig, tagMap) IN
       call' = [NoCall EXCEPT !.op = "GetRelationTypeId", !.tagMap = tagMap, !.ret = r.ret,
                              !.typeId = r.typeId]
  /\ UNCHANGED <<typeConfig, buffer, copy, written, dataFile, load>>

ClassifyNext ==
  \/ DoAddTypeInfo
  \/ DoAddCondition
  \/ DoGetNodeType
  \/ DoGetWayAreaTypeId
  \/ DoGetRelationTypeId

SpecClassify == ClassifyInit /\ [][ClassifyNext]_vars

-----------------------------------------------------------------------------
(* Claims about classification *)

\* positions of the types with a condition of the given kind that holds on tagMap
Matching(tc, kind, tagMap) ==
  {i \in 1..Len(tc.types) :
     \E c \in 1..Len(tc.types[i].conditions) :
        /\ kind \in tc.types[i].conditions[c].types
        /\ Evaluate(tc.types[i].conditions[c].condition, tagMap)}

NodeCandidates(tc, tagMap) == {i \in Matching(tc, typeNode, tagMap) : tc.types[i].canBeNode}
AreaCandidates(tc, tagMap) == {i \in Matching(tc, typeArea, tagMap) : tc.types[i].canBeArea}
RelationCandidates(tc, tagMap) ==
  {i \in Matching(tc, typeRelation, tagMap) : tc.types[i].canBeRelation}

IsMultipolygon(tagMap) == tagType \in DOMAIN tagMap /\ tagMap[tagType] = "multipolygon"

\* C1: GetNodeType returns the earliest-registered type that can be a node and
\* has a node-scoped condition true on the tag map; for an empty tag map, or
\* when there is no such type, it returns the ignore type (id 0).
C1_NodeTypeIsFirstMatch ==
  call.op = "GetNodeType" =>
    LET M == NodeCandidates(typeConfig, call.tagMap) IN
    IF DOMAIN call.tagMap = {} \/ M = {}
    THEN call.node = typeInfoIgnore /\ typeConfig.types[call.node].id = 0
    ELSE call.node = Min(M)

\* C1 witness: two types have a matching node-scoped condition, and the
\* earlier one was returned.
C1_Witness ==
  /\ call.op = "GetNodeType"
  /\ Cardinality(NodeCandidates(typeConfig, call.tagMap)) >= 2
  /\ call.node = Min(NodeCandidates(typeConfig, call.tagMap))

\* C2: for a non-empty tag map GetWayAreaTypeId fixes wayType and areaType
\* independently: wayType is the id of the earliest-registered type with a
\* matching way-scoped condition and areaType that of the earliest-registered
\* type with a matching area-scoped condition (ignore if there is none).
C2_WayAndAreaIndependent ==
  (call.op = "GetWayAreaTypeId" /\ DOMAIN call.tagMap # {}) =>
    LET W == Matching(typeConfig, typeWay, call.tagMap)
        A == Matching(typeConfig, typeArea, call.tagMap)
    IN /\ call.wayType = IF W = {} THEN typeIgnore ELSE typeConfig.types[Min(W)].id
       /\ call.areaType = IF A = {} THEN typeIgnore ELSE typeConfig.types[Min(A)].id

\* C3: with type=multipolygon GetRelationTypeId returns the earliest-registered
\* area-capable type with a matching area-scoped condition, otherwise the
\* earliest-registered relation-capable type with a matching relation-scoped
\* condition; without a match, or for an empty tag map, the ignore id and false.
C3_RelationType ==
  call.op = "GetRelationTypeId" =>
    LET M == IF IsMultipolygon(call.tagMap)
             THEN AreaCandidates(typeConfig, call.tagMap)
             ELSE RelationCandidates(typeConfig, call.tagMap)
    IN IF DOMAIN call.tagMap = {} \/ M = {}
       THEN call.typeId = typeIgnore /\ ~call.ret
       ELSE call.typeId = typeConfig.types[Min(M)].id

\* C3 witness: a multipolygon tag map on which an area-scoped condition of one
\* type and a relation-scoped condition of an earlier type hold; the area type
\* was returned.
C3_Witness ==
  /\ call.op = "GetRelationTypeId"
  /\ IsMultipolygon(call.tagMap)
  /\ AreaCandidates(typeConfig, call.tagMap) # {}
  /\ RelationCandidates(typeConfig, call.tagMap) # {}
  /\ Min(RelationCandidates(typeConfig, call.tagMap)) < Min(AreaCandidates(typeConfig, call.tagMap))
  /\ call.typeId = typeConfig.types[Min(AreaCandidates(typeConfig, call.tagMap))].id

RegisteredTypeIds(tc) == {tc.types[i].id : i \in 1..Len(tc.types)}

\* every result of the last call is a registered type or the ignore type
ResultIsRegistered ==
  /\ call.node \in 1..Len(typeConfig.types)
  /\ {call.wayType, call.areaType, call.typeId} \subseteq RegisteredTypeIds(typeConfig) \cup {typeIgnore}

\* a step that classifies leaves the TypeConfig as it is, and a call repeated
\* on the same TypeConfig and tag map returns what the call before returned
ClassifyStep ==
  /\ (call' # NoCall /\ call' # call) => typeConfig' = typeConfig
  /\ (call'.op = call.op /\ call'.tagMap = call.tagMap /\ typeConfig' = typeConfig) => call' = call

-----------------------------------------------------------------------------
(* The buffer model: one FeatureValueBuffer is bound, filled, written and    *)
(* read; what it wrote is read back into a second, fresh buffer.             *)

\* the types a buffer is bound to: their features in index order
BufferTypeFeatures == {<<"Ref", "Bridge", "Layer">>, <<"Address", "Bridge">>}

RECURSIVE AddFeatures(_, _, _)
AddFeatures(typeInfo, featureNames, i) ==
  IF i > Len(featureNames) THEN typeInfo
  ELSE AddFeatures(AddFeature(typeInfo, featureNames[i]), featureNames, i + 1)

BufferTypes == {AddFeatures(NewTypeInfo, featureNames, 1) : featureNames \in BufferTypeFeatures}

\* the tag maps parsed
ParseTagMaps ==
  {<<>>,
   (tagRef :> "abc"), (tagRef :> ""),
   (tagBridge :> "yes"), (tagBridge :> "no"),
   (tagLayer :> "-1"), (tagLayer :> "0"), (tagLayer :> "abc"),
   (tagRef :> "abc") @@ (tagBridge :> "yes") @@ (tagLayer :> "-1"),
   (tagAddrStreet :> "abc"),
   (tagAddrStreet :> "abc") @@ (tagAddrHouseNr :> "1"),
   (tagAddrStreet :> "abc") @@ (tagAddrHouseNr :> "1") @@ (tagBridge :> "yes")}

FeatureIndexes(buf) == 0..(GetFeatureCount(buf.type) - 1)

BufferInit ==
  /\ typeConfig = TypeConfigConstructor
  /\ call = NoCall
  /\ buffer = NewFeatureValueBuffer
  /\ copy = NoCopy
  /\ written = NothingWritten
  /\ dataFile = NoFile
  /\ load = NoLoad

\* buffer.SetType(type)
DoSetType ==
  /\ ~buffer.undefined
  /\ \E type \in BufferTypes : buffer' = SetType(buffer, type)
  /\ UNCHANGED <<typeConfig, call, copy, written, dataFile, load>>

\* buffer.AllocateValue(idx), under its asserted precondition
DoAllocateValue ==
  /\ buffer.bound /\ ~buffer.undefined
  /\ \E idx \in FeatureIndexes(buffer) :
       /\ ~HasValue(buffer, idx)
       /\ buffer' = AllocateValue(buffer, idx)
  /\ UNCHANGED <<typeConfig, call, copy, written, dataFile, load>>

\* buffer.FreeValue(idx), under its asserted precondition
DoFreeValue ==
  /\ buffer.bound /\ ~buffer.undefined
  /\ \E idx \in FeatureIndexes(buffer) :
       /\ HasValue(buffer, idx)
       /\ buffer' = FreeValue(buffer, idx)
  /\ UNCHANGED <<typeConfig, call, copy, written, dataFile, load>>

\* buffer.Parse(progress, typeConfig, object, tags), under the precondition
\* AllocateValue asserts: no feature the tags set has its bit set already
DoParse ==
  /\ buffer.bound /\ ~buffer.undefined
  /\ \E tagMap \in ParseTagMaps :
       /\ \A idx \in FeatureIndexes(buffer) :
            HasValue(buffer, idx) =>
              FeatureParse(FeatureAt(buffer, idx), idx, tagMap, buffer) = buffer
       /\ buffer' = BufferParse(buffer, tagMap)
  /\ UNCHANGED <<typeConfig, call, copy, written, dataFile, load>>

\* buffer.Write(writer) to an empty file
DoWrite ==
  /\ buffer.bound /\ ~buffer.undefined
  /\ IF WriteReadsUnconstructed(buffer)
     THEN /\ buffer' = [buffer EXCEPT !.undefined = TRUE]
          /\ UNCHANGED <<copy, written>>
     ELSE /\ written' = [called |-> TRUE, source |-> Content(buffer), data |-> BufferWrite(buffer)]
          /\ copy' = NoCopy
          /\ UNCHANGED buffer
  /\ UNCHANGED <<typeConfig, call, dataFile, load>>

\* buffer.Read(scanner) on a file a buffer of the same type wrote, or on the
\* first n values of it; the file is removed afterwards
DoRead ==
  /\ buffer.bound /\ ~buffer.undefined
  /\ written.called
  /\ written.source.type = buffer.type
  /\ \E n \in 0..Len(written.data) :
       buffer' = BufferRead(buffer, NewScanner(SubSeq(written.data, 1, n))).buffer
  /\ written' = NothingWritten
  /\ copy' = NoCopy
  /\ UNCHANGED <<typeConfig, call, dataFile, load>>

\* FeatureValueBuffer copy; copy.SetType(type of the writer); copy.Read(scanner)
\* on the file written
DoReadBack ==
  /\ written.called
  /\ LET r == BufferRead(SetType(NewFeatureValueBuffer, written.source.type),
                         NewScanner(written.data))
     IN copy' = [called |-> TRUE, ok |-> r.ok, buffer |-> r.buffer]
  /\ UNCHANGED <<typeConfig, call, buffer, written, dataFile, load>>

BufferNext ==
  \/ DoSetType
  \/ DoAllocateValue
  \/ DoFreeValue
  \/ DoParse
  \/ DoWrite
  \/ DoRead
  \/ DoReadBack

SpecBuffer == BufferInit /\ [][BufferNext]_vars

-----------------------------------------------------------------------------
(* Claims about the feature value buffer *)

\* the features of the bound type that have a payload
PayloadIndexes(buf) == {idx \in FeatureIndexes(buf) : FeatureHasValue(FeatureAt(buf, idx))}

\* C5: in every reachable state of a buffer, Read included, presence bit i of
\* a feature with a payload is set if and only if its payload region holds a
\* live constructed value, no value was constructed over a live one or
\* released without being destroyed, and nothing unconstructed was destroyed.
C5_BitIffLiveValue ==
  buffer.bound =>
    /\ \A idx \in PayloadIndexes(buffer) :
         HasValue(buffer, idx) <=> GetValue(buffer, idx) # Unconstructed
    /\ ~buffer.lost
    /\ ~buffer.undefined

\* C6: a buffer populated by AllocateValue, FreeValue and Parse only, written
\* and read into a fresh buffer of the same type: the read succeeds, the
\* presence bits are the same and every present payload is equal.
C6_WriteReadRoundTrip ==
  (copy.called /\ written.source.lastRead = "none") =>
    /\ copy.ok
    /\ copy.buffer.type = written.source.type
    /\ copy.buffer.featureBits = written.source.featureBits
    /\ \A idx \in PayloadIndexes(written.source) :
         HasValue(written.source, idx) =>
           GetValue(copy.buffer, idx) = GetValue(written.source, idx)

\* a buffer with two payloads present, one of them set by Parse, was written
\* and read back
C6_Witness ==
  /\ copy.called
  /\ written.source.lastRead = "none"
  /\ Cardinality({idx \in PayloadIndexes(written.source) : HasValue(written.source, idx)}) = 2
  /\ \E idx \in PayloadIndexes(written.source) :
       /\ HasValue(written.source, idx)
       /\ GetValue(written.source, idx) # FeatureAllocateValue(FeatureAt(written.source, idx))

-----------------------------------------------------------------------------
(* The persistence model: a client registers tags, name tags and types on a *)
(* TypeConfig, stores it, and loads the file, or the first values of it,    *)
(* into the instance at hand, which may be a new one.                       *)

\* the tags a client registers for internal use
UserTagNames == {"foo", "bar"}

\* the name tag and the name alt tag a client registers, with their priority
UserNameTags == {[name |-> "bar", priority |-> 1]}
UserNameAltTags == {[name |-> "foo", priority |-> 2]}

\* the types a client registers: a way type with a feature and flags, and a
\* node, area and relation type with an id of its own, each with a condition
PersistTypes ==
  {AddCondition(AddFeature([NewTypeInfo EXCEPT !.name = "highway", !.canBeWay = TRUE,
                                               !.canRouteCar = TRUE, !.pinWay = TRUE],
                           "Ref"),
                {typeWay}, TagExistsCondition(tagName)),
   AddCondition([NewTypeInfo EXCEPT !.name = "building", !.id = 9, !.canBeNode = TRUE,
                                    !.canBeArea = TRUE, !.canBeRelation = TRUE,
                                    !.indexAsPOI = TRUE],
                {typeNode, typeArea, typeRelation}, TagExistsCondition(tagName))}

\* the values an uninitialized TagId is read as
UninitializedIds == {0, 1}

\* what the client has registered on the instance: tags, priorities and types
Entries(tc) ==
  (Len(tc.tags) - Len(TypeConfigConstructor.tags))
  + Cardinality(DOMAIN tc.nameTagIdToPrioMap)
  + Cardinality(DOMAIN tc.nameAltTagIdToPrioMap)
  + (Len(tc.types) - Len(TypeConfigConstructor.types))

\* the lengths a file is cut to: nothing, in and after its last tag record,
\* in its name tag and name alt tag records, in its last type record, or whole
CutPoints(data) ==
  LET tagsEnd == 1 + 3 * data[1].n
      nameTagsEnd == tagsEnd + 1 + 3 * data[tagsEnd + 1].n
      nameAltTagsEnd == nameTagsEnd + 1 + 3 * data[nameTagsEnd + 1].n
  IN {0} \cup ((tagsEnd - 3)..(nameAltTagsEnd + 1)) \cup ((Len(data) - MaxCut)..Len(data))

PersistInit ==
  /\ typeConfig = TypeConfigConstructor
  /\ call = NoCall
  /\ buffer = NewFeatureValueBuffer
  /\ copy = NoCopy
  /\ written = NothingWritten
  /\ dataFile = NoFile
  /\ load = NoLoad

\* TypeConfig typeConfig;
DoNewTypeConfig ==
  /\ typeConfig' = TypeConfigConstructor
  /\ load' = NoLoad
  /\ UNCHANGED <<call, buffer, copy, written, dataFile>>

\* typeConfig.RegisterTagForInternalUse(name)
DoRegisterTagForInternalUse ==
  /\ ~load.called
  /\ Entries(typeConfig) < MaxEntries
  /\ \E name \in UserTagNames :
       typeConfig' = RegisterTagForInternalUse(typeConfig, name).config
  /\ UNCHANGED <<call, buffer, copy, written, dataFile, load>>

\* typeConfig.RegisterNameTag(name, priority)
DoRegisterNameTag ==
  /\ ~load.called
  /\ Entries(typeConfig) < MaxEntries
  /\ \E tag \in UserNameTags :
       typeConfig' = RegisterNameTag(typeConfig, tag.name, tag.priority).config
  /\ UNCHANGED <<call, buffer, copy, written, dataFile, load>>

\* typeConfig.RegisterNameAltTag(name, priority)
DoRegisterNameAltTag ==
  /\ ~load.called
  /\ Entries(typeConfig) < MaxEntries
  /\ \E tag \in UserNameAltTags :
       typeConfig' = RegisterNameAltTag(typeConfig, tag.name, tag.priority).config
  /\ UNCHANGED <<call, buffer, copy, written, dataFile, load>>

\* typeConfig.AddTypeInfo(typeInfo) with a TypeInfo set up before
DoRegisterType ==
  /\ ~load.called
  /\ Entries(typeConfig) < MaxEntries
  /\ \E typeInfo \in PersistTypes : typeConfig' = AddTypeInfo(typeConfig, typeInfo)
  /\ UNCHANGED <<call, buffer, copy, written, dataFile, load>>

\* typeConfig.StoreToDataFile(directory)
DoStoreToDataFile ==
  /\ ~load.called
  /\ dataFile' = [stored |-> TRUE, source |-> typeConfig, data |-> StoreToDataFile(typeConfig)]
  /\ UNCHANGED <<typeConfig, call, buffer, copy, written, load>>

\* typeConfig.LoadFromDataFile(directory) on a new instance or one with a
\* single registration, types.dat being the file stored or the first n values
\* of it
DoLoadFromDataFile ==
  /\ ~load.called
  /\ dataFile.stored
  /\ Entries(typeConfig) <= 1
  /\ \E n \in CutPoints(dataFile.data), uninitialized \in UninitializedIds :
       \E r \in {LoadFromDataFile(typeConfig, SubSeq(dataFile.data, 1, n), uninitialized)} :
         /\ typeConfig' = r.config
         /\ load' = [called |-> TRUE, ok |-> r.ok, before |-> typeConfig,
                     complete |-> n = Len(dataFile.data)]
  /\ UNCHANGED <<call, buffer, copy, written, dataFile>>

PersistNext ==
  \/ DoNewTypeConfig
  \/ DoRegisterTagForInternalUse
  \/ DoRegisterNameTag
  \/ DoRegisterNameAltTag
  \/ DoRegisterType
  \/ DoStoreToDataFile
  \/ DoLoadFromDataFile

SpecPersist == PersistInit /\ [][PersistNext]_vars

-----------------------------------------------------------------------------
(* Claims about the persistence of the TypeConfig *)

\* the instance was new when the whole file stored was loaded into it
LoadedWholeFileIntoNew ==
  load.called /\ load.complete /\ load.before = TypeConfigConstructor

\* name and id of the types, in the order of the type list
TypeNameIds(tc) == [i \in 1..Len(tc.types) |-> <<tc.types[i].name, tc.types[i].id>>]

\* the feature names of the types, in the order of the type list
TypeFeatureNames(tc) ==
  [i \in 1..Len(tc.types) |->
     [k \in 1..Len(tc.types[i].features) |-> tc.types[i].features[k].feature]]

\* C7: a TypeConfig built by tag, name tag and type registrations on a new
\* instance, stored and loaded into a new instance: the load succeeds, and
\* the loaded instance maps the same tag names to the same ids, has the same
\* type names and ids in the same order, and the same feature names per type.
C7_StoreLoadRoundTrip ==
  LoadedWholeFileIntoNew =>
    /\ load.ok
    /\ typeConfig.stringToTagMap = dataFile.source.stringToTagMap
    /\ TypeNameIds(typeConfig) = TypeNameIds(dataFile.source)
    /\ TypeFeatureNames(typeConfig) = TypeFeatureNames(dataFile.source)

\* a config with a tag, a name tag priority and a type with a feature of its
\* own, all registered by the client, went through store and load
C7_Witness ==
  /\ LoadedWholeFileIntoNew
  /\ Len(dataFile.source.tags) > Len(TypeConfigConstructor.tags)
  /\ DOMAIN dataFile.source.nameTagIdToPrioMap # {}
  /\ \E i \in 1..Len(dataFile.source.types) :
       /\ dataFile.source.types[i].name = "highway"
       /\ dataFile.source.types[i].id >= Len(TypeConfigConstructor.types)
       /\ Len(dataFile.source.types[i].features) > 0

\* C8: a load of the whole file that returns true has given every tag and
\* every type of the file the id stored for it; a load that gives one of
\* them another id returns false.
C8_IdMismatchFails ==
  (load.called /\ load.complete /\ load.ok) =>
    /\ \A i \in 1..Len(dataFile.source.tags) :
         GetTagId(typeConfig, dataFile.source.tags[i].name) = dataFile.source.tags[i].id
    /\ \A i \in 1..Len(dataFile.source.types) :
         GetTypeId(typeConfig, dataFile.source.types[i].name) = dataFile.source.types[i].id

\* C9: a load that returns false leaves the tag table, the name tag and name
\* alt tag priorities and the type list as they were.
C9_LoadAllOrNothing ==
  (load.called /\ ~load.ok) =>
    /\ typeConfig.tags = load.before.tags
    /\ typeConfig.nameTagIdToPrioMap = load.before.nameTagIdToPrioMap
    /\ typeConfig.nameAltTagIdToPrioMap = load.before.nameAltTagIdToPrioMap
    /\ typeConfig.types = load.before.types

\* name and priority of the tags with a priority in map
NamePriorities(tc, map) == {<<tc.tags[id + 1].name, map[id]>> : id \in DOMAIN map}

\* C10: after a load of a cut file, which returns false, every tag, every
\* name tag or name alt tag priority and every type of the instance was
\* there before or is a record the file holds whole: nothing is registered
\* from a record whose read failed.
C10_FailedReadRegistersNothing ==
  (load.called /\ ~load.complete) =>
    /\ ~load.ok
    /\ \A i \in 1..Len(typeConfig.tags) :
         \/ typeConfig.tags[i].name \in DOMAIN load.before.stringToTagMap
         \/ typeConfig.tags[i].name \in DOMAIN dataFile.source.stringToTagMap
    /\ NamePriorities(typeConfig, typeConfig.nameTagIdToPrioMap) \subseteq
         NamePriorities(load.before, load.before.nameTagIdToPrioMap)
         \cup NamePriorities(dataFile.source, dataFile.source.nameTagIdToPrioMap)
    /\ NamePriorities(typeConfig, typeConfig.nameAltTagIdToPrioMap) \subseteq
         NamePriorities(load.before, load.before.nameAltTagIdToPrioMap)
         \cup NamePriorities(dataFile.source, dataFile.source.nameAltTagIdToPrioMap)
    /\ \A i \in 1..Len(typeConfig.types) :
         \/ typeConfig.types[i].name \in DOMAIN load.before.nameToTypeMap
         \/ typeConfig.types[i].name \in DOMAIN dataFile.source.nameToTypeMap

-----------------------------------------------------------------------------
(* The registry model: a client registers tags on a new TypeConfig, for     *)
(* internal and for external use, and features, and looks them up.          *)

\* the tag names a client uses: the sentinel name, an external and an
\* internal-only tag of the constructor, and names of its own
RegistryTagNames == {"", "name", "area", "foo", "bar"}

RegistryInit ==
  /\ typeConfig = TypeConfigConstructor
  /\ call = NoCall
  /\ buffer = NewFeatureValueBuffer
  /\ copy = NoCopy
  /\ written = NothingWritten
  /\ dataFile = NoFile
  /\ load = NoLoad

\* id = typeConfig.RegisterTagForInternalUse(name)
CallRegisterTagForInternalUse ==
  /\ \E name \in RegistryTagNames :
       \E r \in {RegisterTagForInternalUse(typeConfig, name)} :
         /\ typeConfig' = r.config
         /\ call' = [op |-> "RegisterTagForInternalUse", name |-> name, id |-> r.id,
                     before |-> typeConfig]
  /\ UNCHANGED <<buffer, copy, written, dataFile, load>>

\* id = typeConfig.RegisterTagForExternalUse(name)
CallRegisterTagForExternalUse ==
  /\ \E name \in RegistryTagNames :
       \E r \in {RegisterTagForExternalUse(typeConfig, name)} :
         /\ typeConfig' = r.config
         /\ call' = [op |-> "RegisterTagForExternalUse", name |-> name, id |-> r.id,
                     before |-> typeConfig]
  /\ UNCHANGED <<buffer, copy, written, dataFile, load>>

\* id = typeConfig.GetTagId(name)
CallGetTagId ==
  /\ \E name \in RegistryTagNames :
       call' = [op |-> "GetTagId", name |-> name, id |-> GetTagId(typeConfig, name),
                before |-> typeConfig]
  /\ UNCHANGED <<typeConfig, buffer, copy, written, dataFile, load>>

\* the Feature objects a client registers: two objects with the same name
ClientFeatures == {"Custom", "Custom#2"}

\* typeConfig.RegisterFeature(feature); Initialize() of the client's features
\* registers no tag
CallRegisterFeature ==
  /\ \E feature \in ClientFeatures :
       /\ typeConfig' = RegisterFeature(typeConfig, feature)
       /\ call' = [op |-> "RegisterFeature", name |-> FeatureGetName(feature),
                   feature |-> feature, before |-> typeConfig]
  /\ UNCHANGED <<buffer, copy, written, dataFile, load>>

\* feature = typeConfig.GetFeature(name)
CallGetFeature ==
  /\ \E name \in {"Custom", "Ref"} :
       call' = [op |-> "GetFeature", name |-> name, feature |-> GetFeature(typeConfig, name),
                before |-> typeConfig]
  /\ UNCHANGED <<typeConfig, buffer, copy, written, dataFile, load>>

RegistryNext ==
  \/ CallRegisterTagForInternalUse
  \/ CallRegisterTagForExternalUse
  \/ CallGetTagId
  \/ CallRegisterFeature
  \/ CallGetFeature

SpecRegistry == RegistryInit /\ [][RegistryNext]_vars

-----------------------------------------------------------------------------
(* Claims about the tag registry *)

TagRegistrations == {"RegisterTagForInternalUse", "RegisterTagForExternalUse"}

\* C11: registering a name that is registered already, for internal or for
\* external use, returns the id the name has and adds no tag;
\* RegisterTagForExternalUse makes an internal-only tag external and keeps its
\* id; and no registration makes an external tag internal-only.
C11_TagReRegistration ==
  call.op \in TagRegistrations =>
    LET before == call.before
        known == call.name \in DOMAIN before.stringToTagMap
    IN /\ known =>
            /\ call.id = before.stringToTagMap[call.name]
            /\ Len(typeConfig.tags) = Len(before.tags)
            /\ \A i \in 1..Len(before.tags) :
                  /\ typeConfig.tags[i].id = before.tags[i].id
                  /\ typeConfig.tags[i].name = before.tags[i].name
            /\ typeConfig.stringToTagMap = before.stringToTagMap
       /\ (known /\ call.op = "RegisterTagForExternalUse") =>
            ~typeConfig.tags[call.id + 1].internalOnly
       /\ \A i \in 1..Len(before.tags) :
            ~before.tags[i].internalOnly => ~typeConfig.tags[i].internalOnly

\* an internal-only tag was registered for external use
C11_Witness ==
  /\ call.op = "RegisterTagForExternalUse"
  /\ call.name \in DOMAIN call.before.stringToTagMap
  /\ call.before.tags[call.id + 1].internalOnly
  /\ ~typeConfig.tags[call.id + 1].internalOnly

\* C12: id 0 is the tag with the empty name, a name registered for the first
\* time gets the highest id so far plus one, the tags registered before keep
\* their ids, distinct names have distinct ids, the tag at position i of the
\* tag table has id i, and GetTagId of a name that is not registered is 0.
C12_TagIds ==
  /\ typeConfig.tags[1].id = 0 /\ typeConfig.tags[1].name = ""
  /\ typeConfig.tags[2].id = 1
  /\ \A i \in 1..Len(typeConfig.tags) :
       /\ typeConfig.tags[i].id = i - 1
       /\ typeConfig.tags[i].name \in DOMAIN typeConfig.stringToTagMap
       /\ typeConfig.stringToTagMap[typeConfig.tags[i].name] = i - 1
  /\ \A i, j \in 1..Len(typeConfig.tags) :
       typeConfig.tags[i].name = typeConfig.tags[j].name => i = j
  /\ Cardinality(DOMAIN typeConfig.stringToTagMap) = Len(typeConfig.tags)
  /\ call.op \in TagRegistrations =>
       /\ \A i \in 1..Len(call.before.tags) :
            /\ typeConfig.tags[i].id = call.before.tags[i].id
            /\ typeConfig.tags[i].name = call.before.tags[i].name
       /\ call.name \notin DOMAIN call.before.stringToTagMap =>
            /\ call.id = call.before.tags[Len(call.before.tags)].id + 1
            /\ Len(typeConfig.tags) = Len(call.before.tags) + 1
            /\ typeConfig.tags[Len(typeConfig.tags)].name = call.name
            /\ typeConfig.tags[Len(typeConfig.tags)].id = call.id
  /\ (call.op = "GetTagId" /\ call.name \notin DOMAIN typeConfig.stringToTagMap) =>
       call.id = 0

\* the second new name was registered, after a lookup of it had returned 0
C12_Witness ==
  /\ call.op \in TagRegistrations
  /\ call.name \notin DOMAIN call.before.stringToTagMap
  /\ Len(call.before.tags) > Len(TypeConfigConstructor.tags)
  /\ call.id = Len(TypeConfigConstructor.tags) + 1

-----------------------------------------------------------------------------
(* Claims about the type registry *)

\* C13: id 0 is the ignore type, no two registered types share an id, the
\* types registered before a call keep their ids, the type at position i of
\* the type list has id i, and GetTypeInfo(GetTypeId(name)) is the type named
\* name for every registered name.
C13_TypeIds ==
  /\ typeConfig.types[1].id = typeIgnore /\ typeConfig.types[1].name = ""
  /\ \A i, j \in 1..Len(typeConfig.types) :
       typeConfig.types[i].id = typeConfig.types[j].id => i = j
  /\ \A i \in 1..Len(typeConfig.types) : typeConfig.types[i].id = i - 1
  /\ \A name \in DOMAIN typeConfig.nameToTypeMap :
       LET info == GetTypeInfo(typeConfig, GetTypeId(typeConfig, name)) IN
       info.valid /\ typeConfig.types[info.pos].name = name

-----------------------------------------------------------------------------
(* The type model: a client registers types on a new TypeConfig and adds    *)
(* features to them through their TypeInfoRef.                              *)

\* the features a client adds: with a value of 40, of 12 and of 72 bytes, and
\* without value
FeaturePool == {"Ref", "Custom", "Bridge", "Address"}

TypeInit ==
  /\ typeConfig = TypeConfigConstructor
  /\ call = NoCall
  /\ buffer = NewFeatureValueBuffer
  /\ copy = NoCopy
  /\ written = NothingWritten
  /\ dataFile = NoFile
  /\ load = NoLoad

\* typeConfig.AddTypeInfo(typeInfo) for the next new name: "highway" as a way
\* type, "building" as a node type
CallAddTypeInfo ==
  /\ \E k \in 1..Len(UserTypeNames) :
       /\ k = Cardinality(UserTypePositions(typeConfig)) + 1
       /\ typeConfig' = AddTypeInfo(typeConfig,
                                    [NewTypeInfo EXCEPT !.name = UserTypeNames[k],
                                                        !.canBeWay = (k = 1),
                                                        !.canBeNode = (k = 2)])
  /\ call' = [op |-> "AddTypeInfo"]
  /\ UNCHANGED <<buffer, copy, written, dataFile, load>>

\* typeInfo->AddFeature(feature) on a type the client registered, for a
\* feature the type does not have
CallAddFeature ==
  /\ \E pos \in UserTypePositions(typeConfig), feature \in FeaturePool :
       /\ Len(typeConfig.types[pos].features) < MaxFeatures
       /\ ~HasFeature(typeConfig.types[pos], FeatureGetName(feature))
       /\ typeConfig' = [typeConfig EXCEPT !.types[pos] = AddFeature(@, feature)]
       /\ call' = [op |-> "AddFeature", pos |-> pos]
  /\ UNCHANGED <<buffer, copy, written, dataFile, load>>

TypeNext ==
  \/ CallAddTypeInfo
  \/ CallAddFeature

SpecType == TypeInit /\ [][TypeNext]_vars

-----------------------------------------------------------------------------
(* Claims about the features of a type *)

\* the smallest multiple of the alignment that is not below n
AlignedUp(n) == CHOOSE o \in n..(n + alignment - 1) : o % alignment = 0

\* the first offset is 0, each next offset is the end of the value before it
\* rounded up to the alignment, and every offset is a multiple of the alignment
OffsetsChained(features) ==
  /\ Len(features) > 0 => features[1].offset = 0
  /\ \A k \in 1..(Len(features) - 1) :
       features[k + 1].offset = AlignedUp(features[k].offset + GetValueSize(features[k].feature))
  /\ \A k \in 1..Len(features) : features[k].offset % alignment = 0

\* C14: for every type the first offset is 0, each next offset is the previous
\* offset plus the previous feature's payload size rounded up to the
\* alignment, every offset is a multiple of the alignment, and the offsets are
\* strictly increasing along the feature list.
C14_FeatureOffsets ==
  \A i \in 1..Len(typeConfig.types) :
    LET features == typeConfig.types[i].features IN
    /\ OffsetsChained(features)
    /\ \A k \in 1..(Len(features) - 1) : features[k].offset < features[k + 1].offset

\* C14 as amended: the offsets never decrease along the feature list, and the
\* offset after a feature is above the feature's offset exactly when the
\* feature has a payload; the rest as claimed.
C14_FeatureOffsetsAmended ==
  \A i \in 1..Len(typeConfig.types) :
    LET features == typeConfig.types[i].features IN
    /\ OffsetsChained(features)
    /\ \A k \in 1..(Len(features) - 1) :
         /\ features[k].offset <= features[k + 1].offset
         /\ features[k].offset < features[k + 1].offset
              <=> GetValueSize(features[k].feature) > 0

\* a type has a feature after one of 12 bytes and a feature after one without value
C14_Witness ==
  \E i \in 1..Len(typeConfig.types) :
    LET features == typeConfig.types[i].features IN
    /\ Len(features) = MaxFeatures
    /\ \E k \in 1..(Len(features) - 1) : GetValueSize(features[k].feature) = 12
    /\ \E k \in 1..(Len(features) - 1) : GetValueSize(features[k].feature) = 0

\* C15: every registered type that can be a node or can be an area has the
\* Address feature exactly once, also a type that became node- or
\* area-capable through AddCondition after its registration.
C15_AddressOnNodeAndAreaTypes ==
  \A i \in 1..Len(typeConfig.types) :
    LET type == typeConfig.types[i] IN
    (type.canBeNode \/ type.canBeArea) =>
      Cardinality({k \in 1..Len(type.features) :
                     FeatureGetName(type.features[k].feature) = "Address"}) = 1

-----------------------------------------------------------------------------
(* Claims about the feature registry *)

\* C16: RegisterFeature of a feature whose name is in the feature registry
\* already is rejected: the registry is as before, and GetFeature(name)
\* returns the feature registered first.
C16_FeatureNameUnique ==
  /\ (call.op = "RegisterFeature" /\ call.name \in DOMAIN call.before.nameToFeatureMap) =>
       /\ typeConfig.nameToFeatureMap = call.before.nameToFeatureMap
       /\ GetFeature(typeConfig, call.name) = GetFeature(call.before, call.name)
  /\ call.op = "GetFeature" =>
       call.feature = GetFeature(call.before, call.name)

-----------------------------------------------------------------------------
(* The condition model: a condition is built and evaluated on a tag map.    *)

\* the sequences over S of at most n elements
SeqsUpTo(S, n) == UNION {[1..k -> S] : k \in 0..n}

BinaryOperators == {"operatorLess", "operatorLessEqual", "operatorEqual",
                    "operatorNotEqual", "operatorGreaterEqual", "operatorGreater"}

\* the conditions without children, on the tag name (and one on the tag type)
LeafConditions ==
  {TagExistsCondition(tagName), TagExistsCondition(tagType)}
  \cup {TagBinaryConditionString(tagName, op, lit) : op \in BinaryOperators, lit \in {"abc", "10"}}
  \cup {TagBinaryConditionSizeT(tagName, op, lit) : op \in BinaryOperators, lit \in {1, 10}}
  \cup {TagIsInCondition(tagName, values) : values \in {{}, {"yes", "1"}}}

\* the tag maps they are evaluated on: name absent or any value, type absent or present
LeafTagMaps ==
  {<<>>, (tagType :> "multipolygon")}
  \cup {(tagName :> Vocabulary[v]) : v \in 1..Len(Vocabulary)}
  \cup {(tagName :> Vocabulary[v]) @@ (tagType :> "multipolygon") : v \in 1..Len(Vocabulary)}

\* the conditions the combinators are built from
ChildConditions ==
  {TagExistsCondition(tagName), TagExistsCondition(tagType),
   TagBinaryConditionString(tagName, "operatorEqual", "yes")}

BoolTypes == {"boolAnd", "boolOr"}

\* one combinator over conditions without children
FlatConditions ==
  {TagNotCondition(c) : c \in ChildConditions}
  \cup {TagBoolCondition(type, cs) : type \in BoolTypes, cs \in SeqsUpTo(ChildConditions, MaxChildren)}

\* the combinators nested in combinators
NestedChildren ==
  {TagExistsCondition(tagName),
   TagNotCondition(TagExistsCondition(tagType)),
   TagNotCondition(TagNotCondition(TagExistsCondition(tagName))),
   TagBoolCondition("boolAnd", <<>>), TagBoolCondition("boolOr", <<>>),
   TagBoolCondition("boolAnd", <<TagExistsCondition(tagName), TagExistsCondition(tagType)>>),
   TagBoolCondition("boolOr", <<TagExistsCondition(tagName), TagExistsCondition(tagType)>>)}

NestedConditions ==
  {TagNotCondition(c) : c \in FlatConditions}
  \cup {TagBoolCondition(type, cs) : type \in BoolTypes, cs \in SeqsUpTo(NestedChildren, MaxChildren)}

ConditionInputs ==
  (LeafConditions \X LeafTagMaps)
  \cup ((FlatConditions \cup NestedConditions) \X ClassifyTagMaps)

ConditionInit ==
  /\ typeConfig = TypeConfigConstructor
  /\ \E input \in ConditionInputs :
       call = [op |-> "none", condition |-> input[1], tagMap |-> input[2]]
  /\ buffer = NewFeatureValueBuffer
  /\ copy = NoCopy
  /\ written = NothingWritten
  /\ dataFile = NoFile
  /\ load = NoLoad

\* result = condition->Evaluate(tagMap)
CallEvaluate ==
  /\ call.op = "none"
  /\ call' = [op |-> "Evaluate", condition |-> call.condition, tagMap |-> call.tagMap,
              result |-> Evaluate(call.condition, call.tagMap)]
  /\ UNCHANGED <<typeConfig, buffer, copy, written, dataFile, load>>

ConditionNext == CallEvaluate

SpecCondition == ConditionInit /\ [][ConditionNext]_vars

-----------------------------------------------------------------------------
(* Claims about the conditions *)

\* C17: an And condition is true iff every child is true (true without
\* children), an Or condition iff at least one child is true (false without
\* children), and a Not condition is the negation of its child, on every tag
\* map and for every nesting.
C17_Combinators ==
  call.op = "Evaluate" =>
    LET cond == call.condition IN
    /\ (cond.kind = "TagBoolCondition" /\ cond.type = "boolAnd") =>
         (call.result <=> \A k \in 1..Len(cond.conditions) :
                             Evaluate(cond.conditions[k], call.tagMap))
    /\ (cond.kind = "TagBoolCondition" /\ cond.type = "boolOr") =>
         (call.result <=> \E k \in 1..Len(cond.conditions) :
                             Evaluate(cond.conditions[k], call.tagMap))
    /\ cond.kind = "TagNotCondition" =>
         (call.result <=> ~Evaluate(cond.condition, call.tagMap))

\* an And condition with the most children, one of them a combinator, was
\* evaluated to true, and so was an And without children
C17_Witness ==
  /\ call.op = "Evaluate"
  /\ call.condition.kind = "TagBoolCondition"
  /\ call.condition.type = "boolAnd"
  /\ Len(call.condition.conditions) = MaxChildren
  /\ \E k \in 1..MaxChildren : call.condition.conditions[k].kind = "TagBoolCondition"
  /\ call.result

\* the bytes of the strings of the vocabulary
Bytes(s) ==
  CASE s = "" -> <<>>
    [] s = "-1" -> <<45, 49>>
    [] s = "0" -> <<48>>
    [] s = "1" -> <<49>>
    [] s = "10" -> <<49, 48>>
    [] s = "2" -> <<50>>
    [] s = "abc" -> <<97, 98, 99>>
    [] s = "multipolygon" -> <<109, 117, 108, 116, 105, 112, 111, 108, 121, 103, 111, 110>>
    [] s = "no" -> <<110, 111>>
    [] s = "route" -> <<114, 111, 117, 116, 101>>
    [] s = "yes" -> <<121, 101, 115>>

\* a is before b in lexicographic order
LexLess(a, b) ==
  \E k \in 1..(Len(b)) :
    /\ \A j \in 1..(k - 1) : j <= Len(a) /\ a[j] = b[j]
    /\ (k > Len(a) \/ a[k] < b[k])

\* the bytes are the decimal digits of an unsigned number
IsNumber(bytes) == Len(bytes) > 0 /\ \A k \in 1..Len(bytes) : bytes[k] \in 48..57

RECURSIVE Decimal(_, _)
Decimal(bytes, n) ==
  IF n = 0 THEN 0 ELSE 10 * Decimal(bytes, n - 1) + (bytes[n] - 48)

\* what the operator makes of `left < right` and `left = right`
Holds(op, less, equal) ==
  CASE op = "operatorLess" -> less
    [] op = "operatorLessEqual" -> less \/ equal
    [] op = "operatorEqual" -> equal
    [] op = "operatorNotEqual" -> ~equal
    [] op = "operatorGreaterEqual" -> ~less
    [] op = "operatorGreater" -> ~less /\ ~equal

\* C18: on a tag map without the operand tag Exists, Compare (with each of the
\* six operators) and SetMembership are false; Compare with an integer literal
\* is false for every operator when the value of the tag does not parse as a
\* number and compares the parsed number with the literal otherwise; Compare
\* with a string literal compares the value lexicographically.
C18_LeafPredicates ==
  call.op = "Evaluate" =>
    LET cond == call.condition
        leaf == cond.kind \in {"TagExistsCondition", "TagBinaryCondition", "TagIsInCondition"}
        present == leaf /\ cond.tag \in DOMAIN call.tagMap
        value == Bytes(call.tagMap[cond.tag])
    IN /\ (leaf /\ ~present) => ~call.result
       /\ (cond.kind = "TagBinaryCondition" /\ cond.valueType = "sizet" /\ present) =>
            IF IsNumber(value)
            THEN call.result <=> Holds(cond.binaryOperator,
                                       Decimal(value, Len(value)) < cond.tagSizeValue,
                                       Decimal(value, Len(value)) = cond.tagSizeValue)
            ELSE ~call.result
       /\ (cond.kind = "TagBinaryCondition" /\ cond.valueType = "string" /\ present) =>
            (call.result <=> Holds(cond.binaryOperator,
                                   LexLess(value, Bytes(cond.tagStringValue)),
                                   value = Bytes(cond.tagStringValue)))

\* a comparison for not-equal with an integer literal was evaluated to false
\* on a value that is no number
C18_Witness ==
  /\ call.op = "Evaluate"
  /\ call.condition.kind = "TagBinaryCondition"
  /\ call.condition.valueType = "sizet"
  /\ call.condition.binaryOperator = "operatorNotEqual"
  /\ call.condition.tag \in DOMAIN call.tagMap
  /\ call.tagMap[call.condition.tag] = "abc"
  /\ ~call.result

\* ---------------------------------------------------------------------------
\* The access feature: AccessFeature::Parse on a buffer of a type with the
\* feature Access, for every combination of the routing flags of the type and
\* every tag map of at most MaxAccessTags tags
\* ---------------------------------------------------------------------------

\* the TypeConfig of the type: a client has registered the tag access:forward
AccessTypeConfig == RegisterTagForExternalUse(TypeConfigConstructor, "access:forward").config

\* the tags of the tag maps, each with its values
AccessTagValues ==
  (tagAccess :> {"no", "yes"}) @@
  (tagAccessForward :> {"no", "yes"}) @@
  (GetTagId(AccessTypeConfig, "access:forward") :> {"no", "yes"}) @@
  (tagAccessBackward :> {"no", "yes"}) @@
  (tagAccessFoot :> {"no", "yes"}) @@
  (tagAccessBicycle :> {"no", "yes"}) @@
  (tagAccessMotorVehicle :> {"no", "designated"}) @@
  (tagAccessMotorcar :> {"no", "yes"}) @@
  (tagAccessBicycleBackward :> {"no", "yes"}) @@
  (tagOneway :> {"-1", "yes", "no", "false", "0"}) @@
  (tagJunction :> {"roundabout", "yes"})

AccessTagMaps ==
  UNION {[present -> UNION {AccessTagValues[t] : t \in present}] :
           present \in {s \in SUBSET DOMAIN AccessTagValues : Cardinality(s) <= MaxAccessTags}}

AccessTagMapsTyped ==
  {tags \in AccessTagMaps : \A t \in DOMAIN tags : tags[t] \in AccessTagValues[t]}

\* a type with the feature Access and the given routing flags
AccessType(foot, bicycle, car) ==
  AddFeature([NewTypeInfo EXCEPT !.name = "highway", !.canBeWay = TRUE,
                                 !.canRouteFoot = foot, !.canRouteBicycle = bicycle,
                                 !.canRouteCar = car],
             "Access")

AccessInit ==
  /\ typeConfig = AccessTypeConfig
  /\ \E tags \in AccessTagMapsTyped : call = [op |-> "none", tags |-> tags]
  /\ \E foot \in BOOLEAN, bicycle \in BOOLEAN, car \in BOOLEAN :
       buffer = SetType(NewFeatureValueBuffer, AccessType(foot, bicycle, car))
  /\ copy = NoCopy
  /\ written = NothingWritten
  /\ dataFile = NoFile
  /\ load = NoLoad

\* buffer.Parse(progress, typeConfig, object, tags) on the buffer of the type:
\* AccessFeature::Parse(progress, typeConfig, object, type, 0, tags, buffer)
CallParse ==
  /\ call.op = "none"
  /\ buffer' = BufferParse(buffer, call.tags)
  /\ call' = [op |-> "Parse", tags |-> call.tags,
              parsed |-> AccessParse(buffer.type, call.tags)]
  /\ UNCHANGED <<typeConfig, copy, written, dataFile, load>>

AccessNext == CallParse

SpecAccess == AccessInit /\ [][AccessNext]_vars

\* ---------------------------------------------------------------------------
\* Claims about the access feature
\* ---------------------------------------------------------------------------

ModeBits == {footForward, footBackward, bicycleForward, bicycleBackward,
             carForward, carBackward}

\* C19: in the oneway step of AccessFeature::Parse, oneway=-1 clears the
\* forward bicycle and car bits and sets the oneway-backward marker; an oneway
\* value other than -1, no, false and 0 clears the backward bicycle and car
\* bits and sets the oneway-forward marker; junction=roundabout counts only
\* without an oneway tag and then leaves, of the bicycle and car bits and the
\* markers, exactly the forward bits and the oneway-forward marker; the foot
\* bits stay as they were; and the tag access=no alone gives a mask without any
\* of the six mode bits, which is the mask the buffer holds when it holds one.
C19_OnewayStep ==
  call.op = "Parse" =>
    LET tags == call.tags
        before == call.parsed.modeDirection
        after == call.parsed.access
        oneway == tagOneway \in DOMAIN tags
        roundabout == tagJunction \in DOMAIN tags /\ tags[tagJunction] = "roundabout"
    IN /\ (oneway /\ tags[tagOneway] = "-1") =>
            /\ after \cap {bicycleForward, carForward} = {}
            /\ onewayBackward \in after
       /\ (oneway /\ ~(tags[tagOneway] \in {"-1", "no", "false", "0"})) =>
            /\ after \cap {bicycleBackward, carBackward} = {}
            /\ onewayForward \in after
       /\ (oneway /\ tags[tagOneway] \in {"no", "false", "0"}) => after = before
       /\ (~oneway /\ roundabout) =>
            after \ {footForward, footBackward} = {bicycleForward, carForward, onewayForward}
       /\ (~oneway /\ ~roundabout) => after = before
       /\ after \cap {footForward, footBackward} = before \cap {footForward, footBackward}
       /\ (DOMAIN tags = {tagAccess} /\ tags[tagAccess] = "no") => after \cap ModeBits = {}
       /\ HasValue(buffer, 0) => GetValue(buffer, 0) = [access |-> AccessByte(call.parsed.access)]
       /\ HasValue(buffer, 0) = (call.parsed.access # call.parsed.defaultAccess)

\* oneway=-1 and junction=roundabout on a type routable by foot, bicycle and
\* car: the forward bicycle and car bits are cleared, the foot bits are kept
C19_Witness ==
  /\ call.op = "Parse"
  /\ tagOneway \in DOMAIN call.tags /\ call.tags[tagOneway] = "-1"
  /\ tagJunction \in DOMAIN call.tags /\ call.tags[tagJunction] = "roundabout"
  /\ ModeBits \subseteq call.parsed.modeDirection
  /\ call.parsed.access =
       {footForward, footBackward, bicycleBackward, carBackward, onewayBackward}
  /\ HasValue(buffer, 0)

\* C20: in the per-mode blanket step of AccessFeature::Parse, exactly the first
\* present tag of access:foot, access:bicycle, access:motor_vehicle and
\* access:motorcar is applied: the value no clears both direction bits of its
\* mode, any other value leaves both bits of its mode set when no oneway marker
\* was set before the step, and the bits of the other modes stay as they were.
C20_PerModeBlanket ==
  call.op = "Parse" =>
    LET tags == call.tags
        before == call.parsed.direction
        after == call.parsed.mode
        modeTags == <<[tag |-> tagAccessFoot, bits |-> {footForward, footBackward}],
                      [tag |-> tagAccessBicycle, bits |-> {bicycleForward, bicycleBackward}],
                      [tag |-> tagAccessMotorVehicle, bits |-> {carForward, carBackward}],
                      [tag |-> tagAccessMotorcar, bits |-> {carForward, carBackward}]>>
        present == {i \in 1..4 : modeTags[i].tag \in DOMAIN tags}
    IN IF present = {} THEN after = before
       ELSE LET first == modeTags[CHOOSE i \in present : \A j \in present : i <= j] IN
            /\ after \ first.bits = before \ first.bits
            /\ tags[first.tag] = "no" => after \cap first.bits = {}
            /\ (tags[first.tag] # "no" /\ before \cap {onewayForward, onewayBackward} = {}) =>
                 first.bits \subseteq after

\* C21: in the directional step of AccessFeature::Parse, which runs on the
\* result of the blanket access rule and hands its result to the per-mode
\* rules, a tag map with the tag registered under the name access:forward has
\* the forward bits of foot, bicycle and car cleared for the value no and set
\* for any other value, and a tag map with the tag registered under the name
\* access:backward has the backward bits of the three modes overridden
\* likewise.
C21_DirectionalStep ==
  call.op = "Parse" =>
    LET tags == call.tags
        after == call.parsed.direction
        forward == GetTagId(typeConfig, "access:forward")
        backward == GetTagId(typeConfig, "access:backward")
        forwardBits == {footForward, bicycleForward, carForward}
        backwardBits == {footBackward, bicycleBackward, carBackward}
    IN /\ forward \in DOMAIN tags =>
            IF tags[forward] = "no" THEN after \cap forwardBits = {}
            ELSE forwardBits \subseteq after
       /\ backward \in DOMAIN tags =>
            IF tags[backward] = "no" THEN after \cap backwardBits = {}
            ELSE backwardBits \subseteq after

\* ---------------------------------------------------------------------------
\* The features Width, MaxSpeed, Grade, Name and NameAlt: Feature::Parse on a
\* buffer of a type with the one feature. A tag value these features look into
\* is the sequence of its characters.
\* ---------------------------------------------------------------------------

\* WidthFeature::Initialize
tagWidth == GetTagId(TypeConfigConstructor, "width")

IsDigit(char) == char \in {"0", "1", "2", "3", "4", "5", "6", "7", "8", "9"}

DigitValue(char) ==
  CHOOSE d \in 0..9 : <<"0", "1", "2", "3", "4", "5", "6", "7", "8", "9">>[d + 1] = char

\* the number the first n of the digits stand for
RECURSIVE DigitsValue(_, _)
DigitsValue(digits, n) ==
  IF n = 0 THEN 0 ELSE 10 * DigitsValue(digits, n - 1) + DigitValue(digits[n])

RECURSIVE PowerOfTen(_)
PowerOfTen(n) == IF n = 0 THEN 1 ELSE 10 * PowerOfTen(n - 1)

\* StringToNumber(const std::string&, double&): a sign, digits and a fraction
\* after a dot; the value is num / den
StringToNumberDouble(string) ==
  LET negative == Len(string) > 0 /\ string[1] = "-"
      body == IF negative THEN Tail(string) ELSE string
      dots == {i \in 1..Len(body) : body[i] = "."}
      dot == IF dots = {} THEN Len(body) ELSE CHOOSE i \in dots : TRUE
      digits == SelectSeq(body, IsDigit)
      ok == /\ Len(body) > 0
            /\ \A i \in 1..Len(body) : IsDigit(body[i]) \/ body[i] = "."
            /\ Cardinality(dots) <= 1
            /\ dots # {} => (dot > 1 /\ dot < Len(body))
  IN IF ok
     THEN [ok |-> TRUE,
           num |-> (IF negative THEN -1 ELSE 1) * DigitsValue(digits, Len(digits)),
           den |-> PowerOfTen(Len(body) - dot)]
     ELSE [ok |-> FALSE, num |-> 0, den |-> 1]

\* WidthFeature::Parse, a single ',' becomes '.'
WidthFixSeparator(widthString) ==
  LET commas == {i \in 1..Len(widthString) : widthString[i] = ","} IN
  IF Cardinality(commas) = 1
  THEN [i \in 1..Len(widthString) |-> IF i \in commas THEN "." ELSE widthString[i]]
  ELSE widthString

RECURSIVE TrimTrailingSpaces(_)
TrimTrailingSpaces(string) ==
  IF Len(string) > 0 /\ string[Len(string)] = " "
  THEN TrimTrailingSpaces(SubSeq(string, 1, Len(string) - 1))
  ELSE string

\* WidthFeature::Parse, the 'm' behind a digit or a blank and the trailing
\* spaces are removed from a string of two characters or more
WidthRemoveUnit(widthString) ==
  LET n == Len(widthString) IN
  IF n >= 2
  THEN TrimTrailingSpaces(IF widthString[n] = "m"
                             /\ (IsDigit(widthString[n - 1]) \/ widthString[n - 1] = " ")
                          THEN SubSeq(widthString, 1, n - 1)
                          ELSE widthString)
  ELSE widthString

\* floor(w+0.5) of w = num / den
FloorOfPlusHalf(num, den) == (2 * num + den) \div (2 * den)

\* (uint8_t) of a double: a value outside 0..255 has no defined conversion, a
\* build reduces it modulo 256 or saturates it
CastToUint8(value) ==
  IF value \in 0..255 THEN {value}
  ELSE {value % 256, IF value > 255 THEN 255 ELSE 0}

\* WidthFeature::Parse: whether it warns, and the values it can store
WidthFeatureParse(tags) ==
  IF tagWidth \notin DOMAIN tags THEN [warning |-> FALSE, values |-> {}]
  ELSE LET w == StringToNumberDouble(WidthRemoveUnit(WidthFixSeparator(tags[tagWidth]))) IN
       IF ~w.ok THEN [warning |-> TRUE, values |-> {}]
       ELSE IF w.num < 0 /\ 2 * w.num > 511 * w.den THEN [warning |-> TRUE, values |-> {}]
       ELSE [warning |-> FALSE, values |-> CastToUint8(FloorOfPlusHalf(w.num, w.den))]

WidthChars == {"2", "5", "-", ",", ".", "m", " ", "a"}

WidthInputs ==
  {[feature |-> "Width", config |-> TypeConfigConstructor, tags |-> tags] :
     tags \in {<<>>} \cup {tagWidth :> string : string \in SeqsUpTo(WidthChars, MaxWidthLength)}}

\* MaxSpeedFeature::Initialize
tagMaxSpeed == GetTagId(TypeConfigConstructor, "maxspeed")

\* StringToNumber(const std::string&, size_t&): decimal digits
StringToNumberSizeT(string) ==
  IF Len(string) > 0 /\ \A i \in 1..Len(string) : IsDigit(string[i])
  THEN [ok |-> TRUE, value |-> DigitsValue(string, Len(string))]
  ELSE [ok |-> FALSE, value |-> 0]

\* valueString.rfind("mph") and valueString.erase(pos)
EraseFromLastMph(valueString) ==
  LET found == {pos \in 1..Len(valueString) - 2 :
                  SubSeq(valueString, pos, pos + 2) = <<"m", "p", "h">>}
  IN IF found = {} THEN [isMph |-> FALSE, valueString |-> valueString]
     ELSE [isMph |-> TRUE,
           valueString |-> SubSeq(valueString, 1,
                                  (CHOOSE pos \in found : \A q \in found : q <= pos) - 1)]

\* a parse that converts to uint8_t without the comparison with the maximum
MaxSpeedFeatureParseWrapping(tags) ==
  IF tagMaxSpeed \notin DOMAIN tags THEN [warning |-> FALSE, values |-> {}]
  ELSE IF tags[tagMaxSpeed] \in {<<"s", "i", "g", "n", "a", "l", "s">>, <<"n", "o", "n", "e">>}
  THEN [warning |-> FALSE, values |-> {}]
  ELSE IF tags[tagMaxSpeed] = <<"w", "a", "l", "k">> THEN [warning |-> FALSE, values |-> {10}]
  ELSE LET erased == EraseFromLastMph(tags[tagMaxSpeed])
           valueNumeric == StringToNumberSizeT(TrimTrailingSpaces(erased.valueString))
       IN IF ~valueNumeric.ok THEN [warning |-> TRUE, values |-> {}]
          ELSE IF erased.isMph
          THEN [warning |-> FALSE,
                values |-> {((1609 * valueNumeric.value + 500) \div 1000) % 256}]
          ELSE [warning |-> FALSE, values |-> {valueNumeric.value % 256}]

\* MaxSpeedFeature::Parse: whether it warns, and the value it stores.
\* valueNumeric > 255/1.609+0.5 is 3218 * valueNumeric > 511609, and
\* (uint8_t)(valueNumeric*1.609+0.5) the integer part of that sum
MaxSpeedFeatureParse(tags) ==
  IF tagMaxSpeed \notin DOMAIN tags THEN [warning |-> FALSE, values |-> {}]
  ELSE IF tags[tagMaxSpeed] \in {<<"s", "i", "g", "n", "a", "l", "s">>, <<"n", "o", "n", "e">>}
  THEN [warning |-> FALSE, values |-> {}]
  ELSE IF tags[tagMaxSpeed] = <<"w", "a", "l", "k">> THEN [warning |-> FALSE, values |-> {10}]
  ELSE LET erased == EraseFromLastMph(tags[tagMaxSpeed])
           valueNumeric == StringToNumberSizeT(TrimTrailingSpaces(erased.valueString))
       IN IF ~valueNumeric.ok THEN [warning |-> TRUE, values |-> {}]
          ELSE IF erased.isMph
          THEN IF 3218 * valueNumeric.value > 511609
               THEN [warning |-> FALSE, values |-> {255}]
               ELSE [warning |-> FALSE,
                     values |-> {(1609 * valueNumeric.value + 500) \div 1000}]
          ELSE IF valueNumeric.value > 255
          THEN [warning |-> FALSE, values |-> {255}]
          ELSE [warning |-> FALSE, values |-> {valueNumeric.value}]

SpeedDigits == {"0", "1", "2", "3", "5", "8", "9"}

MaxSpeedStrings ==
  {<<"s", "i", "g", "n", "a", "l", "s">>, <<"n", "o", "n", "e">>, <<"w", "a", "l", "k">>} \cup
  {number \o space \o unit :
     number \in SeqsUpTo(SpeedDigits, MaxSpeedDigits),
     space \in {<<>>, <<" ">>},
     unit \in {<<>>, <<"m", "p", "h">>, <<"k", "m", "h">>}}

MaxSpeedInputs ==
  {[feature |-> "MaxSpeed", config |-> TypeConfigConstructor, tags |-> tags] :
     tags \in {<<>>} \cup {tagMaxSpeed :> string : string \in MaxSpeedStrings}}

\* GradeFeature::Initialize
tagSurface == GetTagId(TypeConfigConstructor, "surface")
tagTrackType == GetTagId(TypeConfigConstructor, "tracktype")

\* TypeConfig::RegisterSurfaceToGradeMapping
RegisterSurfaceToGradeMapping(tc, surface, grade) ==
  [tc EXCEPT !.surfaceToGradeMap = MapInsert(@, surface, grade)]

\* TypeConfig::GetGradeForSurface
GetGradeForSurface(tc, surface) ==
  IF surface \in DOMAIN tc.surfaceToGradeMap
  THEN [found |-> TRUE, grade |-> tc.surfaceToGradeMap[surface]]
  ELSE [found |-> FALSE, grade |-> 0]

\* GradeFeature::Parse: whether it warns, and the value it stores
GradeFeatureParse(tc, tags) ==
  LET trackGrades == ("grade1" :> 1) @@ ("grade2" :> 2) @@ ("grade3" :> 3) @@
                     ("grade4" :> 4) @@ ("grade5" :> 5)
      unsupported == tagTrackType \in DOMAIN tags /\ tags[tagTrackType] \notin DOMAIN trackGrades
  IN IF tagTrackType \in DOMAIN tags /\ tags[tagTrackType] \in DOMAIN trackGrades
     THEN [warning |-> FALSE, values |-> {trackGrades[tags[tagTrackType]]}]
     ELSE IF tagSurface \in DOMAIN tags
     THEN LET entry == GetGradeForSurface(tc, tags[tagSurface]) IN
          IF entry.found THEN [warning |-> unsupported, values |-> {entry.grade % 256}]
          ELSE [warning |-> TRUE, values |-> {}]
     ELSE [warning |-> unsupported, values |-> {}]

\* the surface to grade tables of the type configurations
GradeConfigs ==
  {IF second = 0 THEN first
   ELSE RegisterSurfaceToGradeMapping(first, "gravel", second) :
     first \in {TypeConfigConstructor} \cup
               {RegisterSurfaceToGradeMapping(TypeConfigConstructor, "asphalt", grade) :
                  grade \in {1, 3, 5}},
     second \in {0, 1, 3, 5}}

GradeTagMaps ==
  {track @@ surface :
     track \in {<<>>} \cup {tagTrackType :> v :
                              v \in {"grade1", "grade2", "grade3", "grade4", "grade5",
                                     "grade6", "yes"}},
     surface \in {<<>>} \cup {tagSurface :> v : v \in {"asphalt", "gravel", "mud"}}}

GradeInputs ==
  {[feature |-> "Grade", config |-> config, tags |-> tags] :
     config \in GradeConfigs, tags \in GradeTagMaps}

\* the loop of NameFeature::Parse and NameAltFeature::Parse over the tags in
\* the order of std::map, from the i-th tag id on: the name it ends with
RECURSIVE NameLoop(_, _, _, _, _, _)
NameLoop(prioMap, tags, order, i, name, namePriority) ==
  IF i > Len(order) THEN name
  ELSE IF order[i] \in DOMAIN prioMap
          /\ (name = "" \/ prioMap[order[i]] > namePriority)
  THEN NameLoop(prioMap, tags, order, i + 1, tags[order[i]], prioMap[order[i]])
  ELSE NameLoop(prioMap, tags, order, i + 1, name, namePriority)

\* the keys of a std::map<TagId,std::string> from begin() to end()
MapOrder(tags) ==
  CHOOSE order \in [1..Cardinality(DOMAIN tags) -> DOMAIN tags] :
    \A i, j \in DOMAIN order : i < j => order[i] < order[j]

\* NameFeature::Parse: the name it stores
NameFeatureParse(tc, tags) ==
  LET name == NameLoop(tc.nameTagIdToPrioMap, tags, MapOrder(tags), 1, "", 0) IN
  [warning |-> FALSE, values |-> IF name # "" THEN {name} ELSE {}]

\* NameAltFeature::Parse: the name it stores
NameAltFeatureParse(tc, tags) ==
  LET nameAlt == NameLoop(tc.nameAltTagIdToPrioMap, tags, MapOrder(tags), 1, "", 0) IN
  [warning |-> FALSE, values |-> IF nameAlt # "" THEN {nameAlt} ELSE {}]

\* the tags a client registers as name tags (or name-alt tags), and the name
\* each of them carries in a tag map
NameTagNames == <<"name", "name:en", "name:de">>
NameTagValues == <<"Strasse", "Street", "Str.">>

\* the type configurations with the three tags registered by Register, each
\* with one of the priorities
NameConfigs(Register(_, _, _)) ==
  {Register(Register(Register(TypeConfigConstructor, NameTagNames[1], p[1]).config,
                     NameTagNames[2], p[2]).config,
            NameTagNames[3], p[3]).config :
     p \in [1..3 -> 0..MaxNamePriority]}

\* the tag maps: each of the three tags is missing, empty or has its name
NameTagMaps(tc) ==
  {[t \in {GetTagId(tc, NameTagNames[i]) : i \in present} |->
      LET i == CHOOSE k \in present : GetTagId(tc, NameTagNames[k]) = t IN
      IF i \in empty THEN "" ELSE NameTagValues[i]] :
     present \in SUBSET (1..3), empty \in SUBSET (1..3)}

NameInputs ==
  UNION {{[feature |-> "Name", config |-> config, tags |-> tags] :
            tags \in NameTagMaps(config)} : config \in NameConfigs(RegisterNameTag)}

NameAltInputs ==
  UNION {{[feature |-> "NameAlt", config |-> config, tags |-> tags] :
            tags \in NameTagMaps(config)} : config \in NameConfigs(RegisterNameAltTag)}

FeatureInputs ==
  WidthInputs \cup MaxSpeedInputs \cup GradeInputs \cup NameInputs \cup NameAltInputs

FeatureInit ==
  /\ \E input \in FeatureInputs :
       /\ typeConfig = input.config
       /\ call = [op |-> "none", feature |-> input.feature, tags |-> input.tags]
       /\ buffer = SetType(NewFeatureValueBuffer,
                           AddFeature([NewTypeInfo EXCEPT !.name = "highway", !.canBeWay = TRUE],
                                      input.feature))
  /\ copy = NoCopy
  /\ written = NothingWritten
  /\ dataFile = NoFile
  /\ load = NoLoad

\* the buffer after a Parse that can store one of the values, and the call
Parsed(parse, Value(_)) ==
  /\ IF parse.values = {} THEN buffer' = buffer
     ELSE \E v \in parse.values :
            buffer' = [AllocateValue(buffer, 0) EXCEPT !.values[1] = Value(v)]
  /\ call' = [op |-> "Parse", feature |-> call.feature, tags |-> call.tags,
              warning |-> parse.warning]
  /\ UNCHANGED <<typeConfig, copy, written, dataFile, load>>

\* WidthFeature::Parse(progress, typeConfig, object, type, 0, tags, buffer)
CallWidthParse ==
  /\ call.op = "none" /\ call.feature = "Width"
  /\ \E parse \in {WidthFeatureParse(call.tags)} :
       Parsed(parse, LAMBDA v : [width |-> v])

\* MaxSpeedFeature::Parse(progress, typeConfig, object, type, 0, tags, buffer)
CallMaxSpeedParse ==
  /\ call.op = "none" /\ call.feature = "MaxSpeed"
  /\ \E parse \in {MaxSpeedFeatureParse(call.tags)} :
       Parsed(parse, LAMBDA v : [maxSpeed |-> v])

\* GradeFeature::Parse(progress, typeConfig, object, type, 0, tags, buffer)
CallGradeParse ==
  /\ call.op = "none" /\ call.feature = "Grade"
  /\ \E parse \in {GradeFeatureParse(typeConfig, call.tags)} :
       Parsed(parse, LAMBDA v : [grade |-> v])

\* NameFeature::Parse(progress, typeConfig, object, type, 0, tags, buffer)
CallNameParse ==
  /\ call.op = "none" /\ call.feature = "Name"
  /\ \E parse \in {NameFeatureParse(typeConfig, call.tags)} :
       Parsed(parse, LAMBDA v : [name |-> v])

\* NameAltFeature::Parse(progress, typeConfig, object, type, 0, tags, buffer)
CallNameAltParse ==
  /\ call.op = "none" /\ call.feature = "NameAlt"
  /\ \E parse \in {NameAltFeatureParse(typeConfig, call.tags)} :
       Parsed(parse, LAMBDA v : [nameAlt |-> v])

FeatureNext ==
  \/ CallWidthParse
  \/ CallMaxSpeedParse
  \/ CallGradeParse
  \/ CallNameParse
  \/ CallNameAltParse

SpecFeature == FeatureInit /\ [][FeatureNext]_vars

\* ---------------------------------------------------------------------------
\* Claims about the features Width, MaxSpeed, Grade, Name and NameAlt
\* ---------------------------------------------------------------------------

\* C22: after WidthFeature::Parse, a width tag whose value is not a number or
\* is a number below 0 or above 255.5 has produced a warning and no value, and
\* a value that is stored is the number rounded to the nearest integer and
\* lies in 0..255.
C22_WidthRange ==
  (call.op = "Parse" /\ call.feature = "Width" /\ tagWidth \in DOMAIN call.tags) =>
    LET w == StringToNumberDouble(WidthRemoveUnit(WidthFixSeparator(call.tags[tagWidth])))
        outOfRange == w.num < 0 \/ 2 * w.num > 511 * w.den
    IN /\ (~w.ok \/ outOfRange) => (call.warning /\ ~HasValue(buffer, 0))
       /\ HasValue(buffer, 0) =>
            /\ GetValue(buffer, 0).width \in 0..255
            /\ 2 * w.den * GetValue(buffer, 0).width <= 2 * w.num + w.den
            /\ 2 * w.num + w.den < 2 * w.den * (GetValue(buffer, 0).width + 1)

\* the digits a string starts with
LeadingDigits(string) ==
  SubSeq(string, 1,
         CHOOSE k \in 0..Len(string) :
           /\ \A i \in 1..k : IsDigit(string[i])
           /\ k < Len(string) => ~IsDigit(string[k + 1]))

\* the integer nearest to n * 1.609
RoundedKmh(n) == CHOOSE k \in 0..2 * n + 1 : 1609 * n - 500 <= 1000 * k /\ 1000 * k < 1609 * n + 500

\* C24: after MaxSpeedFeature::Parse, a value of digits n has stored
\* min(n, 255) and digits n followed by mph have stored
\* min(round(n * 1.609), 255), so that the stored value is never n or the
\* converted n modulo 256; signals and none have stored nothing, walk has
\* stored 10, and a value that is not numeric has produced a warning and no
\* value.
C24_MaxSpeedClamped ==
  (call.op = "Parse" /\ call.feature = "MaxSpeed" /\ tagMaxSpeed \in DOMAIN call.tags) =>
    LET string == call.tags[tagMaxSpeed]
        digits == LeadingDigits(string)
        n == DigitsValue(digits, Len(digits))
        rest == SubSeq(string, Len(digits) + 1, Len(string))
        words == {<<"s", "i", "g", "n", "a", "l", "s">>, <<"n", "o", "n", "e">>,
                  <<"w", "a", "l", "k">>}
        Min255(x) == IF x < 255 THEN x ELSE 255
    IN /\ (digits # <<>> /\ rest = <<>>) =>
            (HasValue(buffer, 0) /\ GetValue(buffer, 0).maxSpeed = Min255(n))
       /\ (digits # <<>> /\ rest \in {<<"m", "p", "h">>, <<" ", "m", "p", "h">>}) =>
            (HasValue(buffer, 0) /\ GetValue(buffer, 0).maxSpeed = Min255(RoundedKmh(n)))
       /\ string \in {<<"s", "i", "g", "n", "a", "l", "s">>, <<"n", "o", "n", "e">>} =>
            (~HasValue(buffer, 0) /\ ~call.warning)
       /\ string = <<"w", "a", "l", "k">> =>
            (HasValue(buffer, 0) /\ GetValue(buffer, 0).maxSpeed = 10)
       /\ (string \notin words
           /\ (digits = <<>> \/ rest \notin {<<>>, <<" ">>, <<"m", "p", "h">>,
                                             <<" ", "m", "p", "h">>})) =>
            (call.warning /\ ~HasValue(buffer, 0))
       /\ HasValue(buffer, 0) => GetValue(buffer, 0).maxSpeed \in 0..255

\* 159 mph is above the maximum after the conversion and is stored as 255
C24_Witness ==
  /\ call.op = "Parse" /\ call.feature = "MaxSpeed"
  /\ tagMaxSpeed \in DOMAIN call.tags
  /\ call.tags[tagMaxSpeed] = <<"1", "5", "9", " ", "m", "p", "h">>
  /\ HasValue(buffer, 0)
  /\ GetValue(buffer, 0).maxSpeed = 255

\* C23: after GradeFeature::Parse, tracktype=gradeN with N in 1..5 has stored
\* grade N whatever the surface tag is; without a tracktype tag a surface of
\* the surface to grade table has stored its grade; a tracktype value that is
\* not recognised has produced a warning and no value, whatever the surface
\* tag is, and so has a surface that is not in the table.
C23_GradeFromTracktype ==
  (call.op = "Parse" /\ call.feature = "Grade") =>
    LET tags == call.tags
        track == tagTrackType \in DOMAIN tags
        recognised == {"grade1", "grade2", "grade3", "grade4", "grade5"}
        gradeOf == [v \in recognised |->
                      CHOOSE n \in 1..5 : v = <<"grade1", "grade2", "grade3", "grade4", "grade5">>[n]]
        surface == tagSurface \in DOMAIN tags
    IN /\ (track /\ tags[tagTrackType] \in recognised) =>
            (HasValue(buffer, 0) /\ GetValue(buffer, 0).grade = gradeOf[tags[tagTrackType]])
       /\ (~track /\ surface /\ tags[tagSurface] \in DOMAIN typeConfig.surfaceToGradeMap) =>
            /\ HasValue(buffer, 0)
            /\ GetValue(buffer, 0).grade = typeConfig.surfaceToGradeMap[tags[tagSurface]]
       /\ (track /\ tags[tagTrackType] \notin recognised) =>
            (call.warning /\ ~HasValue(buffer, 0))
       /\ (~track /\ surface /\ tags[tagSurface] \notin DOMAIN typeConfig.surfaceToGradeMap) =>
            (call.warning /\ ~HasValue(buffer, 0))

\* the name of the tag map that stands first: of the tags of prioMap with a
\* name that is not empty the one with the highest priority, and of those
\* with that priority the one with the lowest tag id
BestName(prioMap, tags) ==
  LET named == {t \in DOMAIN tags \cap DOMAIN prioMap : tags[t] # ""} IN
  IF named = {} THEN ""
  ELSE tags[CHOOSE t \in named :
              \A u \in named : prioMap[u] < prioMap[t] \/ (prioMap[u] = prioMap[t] /\ t <= u)]

\* C25: after NameFeature::Parse (NameAltFeature::Parse) the buffer holds a
\* value exactly when a registered name tag (name-alt tag) of the tag map has a
\* name that is not empty, and the value is the name of the tag with the
\* highest priority among them, the first in ascending tag id order among
\* equal priorities, wherever a name tag with an empty value stands.
C25_NameByPriority ==
  (call.op = "Parse" /\ call.feature \in {"Name", "NameAlt"}) =>
    LET best == BestName(IF call.feature = "Name" THEN typeConfig.nameTagIdToPrioMap
                         ELSE typeConfig.nameAltTagIdToPrioMap, call.tags)
    IN /\ HasValue(buffer, 0) = (best # "")
       /\ HasValue(buffer, 0) =>
            GetValue(buffer, 0) = IF call.feature = "Name" THEN [name |-> best]
                                  ELSE [nameAlt |-> best]

\* ---------------------------------------------------------------------------
\* Further claims about the feature value buffer
\* ---------------------------------------------------------------------------

\* the features of the buffer whose value is constructed
LiveValues(buf) == {i \in 1..Len(buf.values) : buf.values[i] # Unconstructed}

\* C26: every SetType, whatever state the buffer is in, destroys each live
\* value of the type bound before exactly once (none is left undestroyed and
\* nothing that is not a value is destroyed), binds the new type and leaves
\* the presence bit of every feature of the new type clear; and every
\* AllocateValue(idx) on a clear bit sets bit idx and leaves the other bits as
\* they were.
C26_SetTypeReleasesValues ==
  [][/\ \A type \in BufferTypes :
          (~buffer.undefined /\ buffer' = SetType(buffer, type)) =>
            /\ buffer'.lost = buffer.lost
            /\ ~buffer'.undefined
            /\ buffer'.bound /\ buffer'.type = type
            /\ LiveValues(buffer') = {}
            /\ \A idx \in FeatureIndexes(buffer') : ~HasValue(buffer', idx)
     /\ (buffer.bound /\ ~buffer.undefined) =>
          \A idx \in FeatureIndexes(buffer) :
            (~HasValue(buffer, idx) /\ buffer' = AllocateValue(buffer, idx)) =>
              /\ HasValue(buffer', idx)
              /\ \A other \in FeatureIndexes(buffer) \ {idx} :
                   HasValue(buffer', other) = HasValue(buffer, other)
    ]_vars

\* what one value is in a file: its strings and numbers in the order of its
\* members
PayloadOf(value) ==
  CASE DOMAIN value = {"ref"} -> <<[s |-> value.ref]>>
    [] DOMAIN value = {"layer"} -> <<[n |-> value.layer]>>
    [] DOMAIN value = {"location", "address"} ->
         <<[s |-> value.location], [s |-> value.address]>>

\* the features with a payload in a file: bit set and payload size not zero
PayloadFeatures(src) ==
  {idx \in 0..(Len(src.type.features) - 1) :
     HasValue(src, idx) /\ GetValueSize(src.type.features[idx + 1].feature) > 0}

\* the payloads of the features from idx on, in ascending order
RECURSIVE PayloadsFrom(_, _)
PayloadsFrom(src, idx) ==
  IF idx >= Len(src.type.features) THEN <<>>
  ELSE (IF idx \in PayloadFeatures(src) THEN PayloadOf(src.values[idx + 1]) ELSE <<>>)
       \o PayloadsFrom(src, idx + 1)

\* C27: what Write has written is all bytes of the presence bitset followed, in
\* ascending feature index, by one payload for exactly the features whose bit
\* is set and whose payload size is not zero, a feature with a clear bit or
\* without a payload (Bridge) contributing nothing; and Read into a buffer of
\* the type has taken the bitset first and then constructed and read exactly
\* these features.
C27_BinaryOrder ==
  written.called =>
    LET src == written.source
        bytes == GetFeatureBytes(src.type)
    IN /\ Len(written.data) >= bytes
       /\ \A i \in 1..bytes : written.data[i] = [n |-> src.featureBits[i]]
       /\ SubSeq(written.data, bytes + 1, Len(written.data)) = PayloadsFrom(src, 0)
       /\ copy.called =>
            /\ copy.ok
            /\ copy.buffer.featureBits = src.featureBits
            /\ LiveValues(copy.buffer) = {idx + 1 : idx \in PayloadFeatures(src)}
            /\ \A idx \in PayloadFeatures(src) :
                 PayloadOf(copy.buffer.values[idx + 1]) = PayloadOf(src.values[idx + 1])

\* a buffer of the type [Ref, Bridge, Layer] with the bits of Ref and Bridge
\* set and the bit of Layer clear was written and read: one byte and the
\* payload of Ref
C27_Witness ==
  /\ written.called /\ copy.called
  /\ Len(written.source.type.features) = 3
  /\ HasValue(written.source, 0) /\ HasValue(written.source, 1) /\ ~HasValue(written.source, 2)
  /\ written.data = <<[n |-> 3], [s |-> "abc"]>>

\* ---------------------------------------------------------------------------
\* Further claims about persistence
\* ---------------------------------------------------------------------------

\* the 15 flags of a type in types.dat
TypeFlags(type) ==
  <<type.canBeNode, type.canBeWay, type.canBeArea, type.canBeRelation,
    type.canRouteFoot, type.canRouteBicycle, type.canRouteCar,
    type.indexAsLocation, type.indexAsRegion, type.indexAsPOI,
    type.optimizeLowZoom, type.multipolygon, type.pinWay, type.ignoreSeaLand, type.ignore>>

\* C28: after StoreToDataFile and a LoadFromDataFile of the whole file into a
\* new TypeConfig that returns true, every type has for each of the 15 stored
\* flags the value it had when it was stored.
C28_TypeFlagsSurvive ==
  (LoadedWholeFileIntoNew /\ load.ok) =>
    /\ Len(typeConfig.types) = Len(dataFile.source.types)
    /\ \A i \in 1..Len(dataFile.source.types) :
         TypeFlags(typeConfig.types[i]) = TypeFlags(dataFile.source.types[i])

\* ---------------------------------------------------------------------------
\* Further claims about types
\* ---------------------------------------------------------------------------

\* the bytes of the value of a feature instance
PayloadRegion(instance) ==
  {byte \in 0..(instance.offset + GetValueSize(instance.feature)) :
     /\ instance.offset <= byte
     /\ byte < instance.offset + GetValueSize(instance.feature)}

\* C29: in every type built by AddFeature calls, the byte ranges
\* [offset, offset + payload size) of two features with a payload are
\* disjoint, and each lies inside [0, GetFeatureValueBufferSize()).
C29_PayloadRegionsDisjoint ==
  \A i \in 1..Len(typeConfig.types) :
    LET type == typeConfig.types[i] IN
    \A k \in 1..Len(type.features) :
      /\ \A byte \in PayloadRegion(type.features[k]) :
           byte >= 0 /\ byte < GetFeatureValueBufferSize(type)
      /\ \A l \in 1..Len(type.features) :
           k # l => PayloadRegion(type.features[k]) \cap PayloadRegion(type.features[l]) = {}

\* a type with the 12 bytes of Custom before the last feature, which has a
\* payload too
C29_Witness ==
  \E i \in 1..Len(typeConfig.types) :
    LET features == typeConfig.types[i].features IN
    /\ Len(features) = MaxFeatures
    /\ \E k \in 1..(Len(features) - 1) : GetValueSize(features[k].feature) = 12
    /\ GetValueSize(features[Len(features)].feature) > 0
    /\ Cardinality({k \in 1..Len(features) : PayloadRegion(features[k]) # {}}) >= 2

\* ---------------------------------------------------------------------------
\* Further claims about classification
\* ---------------------------------------------------------------------------

\* the positions of the types of the instance loaded
ReloadedTypes == 1..Len(typeConfig.types)

\* C30: on a TypeConfig populated only by LoadFromDataFile every type has an
\* empty condition list, and GetNodeType, GetWayAreaTypeId and
\* GetRelationTypeId return the ignore type for every tag map, although the
\* reloaded types keep their canBeNode, canBeWay, canBeArea and canBeRelation
\* flags.
C30_ReloadedClassifiesNothing ==
  (load.called /\ load.before = TypeConfigConstructor) =>
    /\ \A i \in ReloadedTypes : typeConfig.types[i].conditions = <<>>
    /\ \A tagMap \in ClassifyTagMaps :
         /\ GetNodeType(typeConfig, tagMap) = typeInfoIgnore
         /\ GetWayAreaTypeId(typeConfig, tagMap) =
              [ret |-> FALSE, wayType |-> typeIgnore, areaType |-> typeIgnore]
         /\ GetRelationTypeId(typeConfig, tagMap) = [ret |-> FALSE, typeId |-> typeIgnore]
    /\ (load.complete /\ load.ok) =>
         \A i \in ReloadedTypes :
           /\ i <= Len(dataFile.source.types)
           /\ typeConfig.types[i].canBeNode = dataFile.source.types[i].canBeNode
           /\ typeConfig.types[i].canBeWay = dataFile.source.types[i].canBeWay
           /\ typeConfig.types[i].canBeArea = dataFile.source.types[i].canBeArea
           /\ typeConfig.types[i].canBeRelation = dataFile.source.types[i].canBeRelation

\* the instance stored classified a node, a way, an area and a relation with
\* the tag name, and was loaded whole into a new instance with both its types
C30_Witness ==
  /\ LoadedWholeFileIntoNew
  /\ load.ok
  /\ GetNodeType(dataFile.source, (tagName :> "yes")) # typeInfoIgnore
  /\ GetWayAreaTypeId(dataFile.source, (tagName :> "yes")).wayType # typeIgnore
  /\ GetRelationTypeId(dataFile.source, (tagName :> "yes")).typeId # typeIgnore
  /\ \E i \in ReloadedTypes : typeConfig.types[i].canBeNode /\ typeConfig.types[i].name = "building"
  /\ \E i \in ReloadedTypes : typeConfig.types[i].canBeWay /\ typeConfig.types[i].name = "highway"

====
